---------------------------- MODULE Spec2Model ----------------------------
(***************************************************************************)
(* Model of the couple builder and of the cluster state model of the      *)
(* mastermind control plane (src/src/cocaine-app/balancer.py, storage.py). *)
(*                                                                         *)
(* Handlers run cooperatively: one action of the model is the code of a   *)
(* handler between two suspension points (lock service calls, storage      *)
(* session calls).  The storage (per-group metakey) and the lock service   *)
(* are part of the state.                                                  *)
(***************************************************************************)
EXTENDS Integers, Sequences, FiniteSets, TLC

(***************************************************************************)
(* Bounds of the model.                                                    *)
(***************************************************************************)
\* number of uncoupled data groups known to the cluster
NumGroups == 5
\* number of groups of the one prepared LRC tuple (the builder treats the
\* groups of a tuple uniformly; the scheme's stripe size is STRIPE_SIZE)
LrcStripe == 2
\* number of build_couples requests served in one behaviour
MaxBuilds == 1
\* largest number of couples asked for in one request
MaxCouples == 2
\* requests to break_couple, namespace_delete and attach_groupset_to_couple
MaxCalls == 1

(***************************************************************************)
(* The cluster: groups, their DC, their total space.                      *)
(***************************************************************************)
DataGroups == 1..NumGroups
LrcGroups == (NumGroups + 1)..(NumGroups + LrcStripe)
AllGroups == DataGroups \cup LrcGroups

DcNames == <<"A", "B", "C">>
\* groups 1 and 4 share DC A, 2 and 5 share DC B (scenario 1 of the spec:
\* 101 in A, 102 in B, 103 in C, 104 in A)
GroupDc(g) == DcNames[((g - 1) % 3) + 1]
\* groups 1..4 have the same total space, the others a larger one
GroupTotalSpace(g) == IF g <= 4 THEN 100 ELSE 200

NsIds == {"img", "new"}

NoGs == <<>>
NoNs == "-"

\* Balancer.NODE_TYPES = ['root'] + inventory types + ['hdd']
NODE_TYPES == <<"root", "dc", "hdd">>
DC_NODE_TYPE == "dc"

\* the unit of group g on a level of the topology tree (one backend per group)
Unit(g, node_type) ==
    IF node_type = "dc" THEN <<GroupDc(g)>> ELSE <<GroupDc(g), g>>

LevelUnits(node_type) == {Unit(g, node_type) : g \in DataGroups}

(***************************************************************************)
(* Helpers on finite sets and sequences.                                   *)
(***************************************************************************)
RECURSIVE SetSum(_, _)
SetSum(S, f) ==
    IF S = {} THEN 0
    ELSE LET x == CHOOSE y \in S : TRUE IN f[x] + SetSum(S \ {x}, f)

RECURSIVE SortedIds(_)
\* sorted(groups, key=group_id)
SortedIds(S) ==
    IF S = {} THEN <<>>
    ELSE LET m == CHOOSE x \in S : \A y \in S : x <= y
         IN <<m>> \o SortedIds(S \ {m})

SeqSet(s) == {s[i] : i \in 1..Len(s)}

\* lexicographic comparison of two lists of numbers of the same length
RECURSIVE LexLeq(_, _)
LexLeq(a, b) ==
    IF a = <<>> THEN TRUE
    ELSE IF Head(a) < Head(b) THEN TRUE
    ELSE IF Head(a) > Head(b) THEN FALSE
    ELSE LexLeq(Tail(a), Tail(b))

(***************************************************************************)
(* Selection of the groups of one couple.                                  *)
(*                                                                         *)
(* acct[g] is the number of times group g was accounted in the namespace   *)
(* state of the tree (account_ns_couples, account_ns_groups).  The weight  *)
(* sum((c - avg)^2) is compared scaled by the square of the number of      *)
(* units of the level, which keeps it an integer and keeps the order.      *)
(***************************************************************************)
NsUnitCount(node_type, u, acct) ==
    SetSum({g \in DataGroups : Unit(g, node_type) = u}, acct)

\* Balancer.__weight_combination; k[u] is the number of times unit u is in comb
WeightCombination(node_type, k, acct) ==
    LET units == LevelUnits(node_type)
        n == Cardinality(units)
        total == SetSum(DataGroups, acct)
        kk(u) == IF u \in DOMAIN k THEN k[u] ELSE 0
        term == [u \in units |->
                    (n * (NsUnitCount(node_type, u, acct) + kk(u)) - total)
                  * (n * (NsUnitCount(node_type, u, acct) + kk(u)) - total)]
    IN SetSum(units, term)

\* Balancer.__weight_couple_groups: one weight per level below the root
WeightCoupleGroups(group_ids, acct) ==
    [i \in 1..(Len(NODE_TYPES) - 1) |->
        LET node_type == NODE_TYPES[i + 1]
            k == [u \in {Unit(g, node_type) : g \in group_ids} |->
                    Cardinality({g \in group_ids : Unit(g, node_type) = u})]
        IN WeightCombination(node_type, k, acct)]

\* the DC restriction of __choose_groups: the units of the combination and of
\* the mandatory groups, taken with repetition, are pairwise distinct
DcCombinationAllowed(k, mandatory_groups, node_type) ==
    LET mand_units == {Unit(g, node_type) : g \in mandatory_groups}
    IN /\ \A u \in DOMAIN k : k[u] <= 1
       /\ \A u \in DOMAIN k : k[u] = 1 => u \notin mand_units
       /\ \A g1, g2 \in mandatory_groups :
              g1 # g2 => Unit(g1, node_type) # Unit(g2, node_type)

\* one result per unit, united; {} as soon as one unit has no result
RECURSIVE UnitResults(_, _)
UnitResults(units, results) ==
    IF units = {} THEN {{}}
    ELSE LET u == CHOOSE x \in units : TRUE
         IN {r \cup rest : r \in results[u],
                           rest \in UnitResults(units \ {u}, results)}

RECURSIVE ChooseGroups(_, _, _, _, _, _)
\* Balancer.__choose_groups.  The result is the set of the lists the call can
\* return (as sets of group ids): ties between combinations of the same
\* weight are broken by the iteration order of a dict.  The empty list
\* stands for [] (nothing chosen).
ChooseGroups(acct, count, group_ids, lv, mandatory_groups, forbidden_dc) ==
    LET levels == Tail(lv)
        node_type == Head(levels)
        units == {Unit(g, node_type) : g \in group_ids}
        groups_by_level_units ==
            [u \in units |-> {g \in group_ids : Unit(g, node_type) = u}]
        Lim(u) == IF count < Cardinality(groups_by_level_units[u])
                  THEN count ELSE Cardinality(groups_by_level_units[u])
        comb_set == {k \in [units -> 0..count] :
                        /\ \A u \in units : k[u] <= Lim(u)
                        /\ SetSum(units, k) = count}
        allowed == {k \in comb_set :
                        (forbidden_dc /\ node_type = DC_NODE_TYPE)
                            => DcCombinationAllowed(
                                   [u \in {x \in units : k[x] > 0} |-> k[u]],
                                   mandatory_groups, node_type)}
        W(k) == WeightCombination(node_type, k, acct)
        least == {k \in allowed : \A k2 \in allowed : W(k) <= W(k2)}
        Sub(k) ==
            LET used == {u \in units : k[u] > 0}
                results == [u \in used |->
                    IF Len(levels) = 1
                    THEN {s \in SUBSET groups_by_level_units[u] :
                              Cardinality(s) = k[u]}
                    ELSE {r \in ChooseGroups(acct, k[u],
                                             groups_by_level_units[u],
                                             levels, mandatory_groups,
                                             forbidden_dc) :
                              TRUE}]
            IN {IF Cardinality(g) < count THEN {} ELSE g :
                    g \in UnitResults(used, results)}
    IN IF Cardinality(group_ids) < count THEN {{}}
       ELSE IF count = 0 THEN {{}}
       ELSE IF allowed = {} THEN {{}}
       ELSE UNION {Sub(k) : k \in least}


\* no bucket is skipped
HasMandatory_Any(group_ids, mandatory_groups) == TRUE

\* __choose_groups_to_couple 1033: a bucket is skipped unless it holds all
\* the mandatory groups
HasMandatory(group_ids, mandatory_groups) == mandatory_groups \subseteq group_ids

\* every candidate that has a group is kept
CandidateKept_Any(candidate, count) == candidate # {}

\* __choose_groups_to_couple 1045: candidates.append(candidate) only when
\* len(candidate) == count
CandidateKept(candidate, count) == Cardinality(candidate) = count

\* Balancer.__choose_groups_to_couple over the buckets of
\* groups_by_total_space: the set of the candidates it can return; the empty
\* set of groups stands for None.
ChooseGroupsToCouple(acct, count, groups_by_total_space, mandatory_groups, forbidden_dc) ==
    LET usable == {ts \in DOMAIN groups_by_total_space :
                      HasMandatory(groups_by_total_space[ts], mandatory_groups)}
        \* the candidate of one bucket: the chosen groups plus the mandatory
        Candidates(ts) ==
            {c \cup mandatory_groups :
                c \in ChooseGroups(acct,
                                   count - Cardinality(mandatory_groups),
                                   groups_by_total_space[ts] \ mandatory_groups,
                                   NODE_TYPES, mandatory_groups, forbidden_dc)}
        all == UNION {Candidates(ts) : ts \in usable}
        picks == {p \in [usable -> all] :
                     \A ts \in usable : p[ts] \in Candidates(ts)}
        Kept(p) == {ts \in usable : CandidateKept(p[ts], count)}
        Result(p) ==
            IF Kept(p) = {} THEN {{}}
            ELSE {p[t] : t \in {t1 \in Kept(p) :
                        \A t2 \in Kept(p) :
                            LexLeq(WeightCoupleGroups(p[t1], acct),
                                   WeightCoupleGroups(p[t2], acct))}}
    IN UNION {Result(p) : p \in picks}

(***************************************************************************)
(* Metakey documents.                                                      *)
(***************************************************************************)
NoLrc == [groups |-> <<>>, part_size |-> 0, scheme |-> ""]
\* meta = None
NoMeta == [version |-> 0, couple |-> <<>>, namespace |-> "", frozen |-> FALSE,
           type |-> "", lrc |-> NoLrc, lrc_groups |-> <<>>]

TYPE_LRC_8_2_2_V1 == "lrc-8-2-2-v1"
TYPE_UNCOUPLED_LRC_8_2_2_V1 == "uncoupled_lrc-8-2-2-v1"
Scheme822v1_ID == "lrc-8-2-2-v1"

\* Group.compose_uncoupled_lrc_group_meta
UncoupledLrcMeta(lrc_groups) ==
    [NoMeta EXCEPT !.version = 2, !.type = TYPE_UNCOUPLED_LRC_8_2_2_V1,
                   !.lrc_groups = lrc_groups]

\* a metakey left on a group by somebody else (a couple this model of the
\* cluster does not know)
ForeignMeta(g) ==
    [NoMeta EXCEPT !.version = 2, !.couple = <<g>>, !.namespace = "other"]

\* the one prepared tuple of uncoupled LRC groups
LrcTuple == SortedIds(LrcGroups)

\* msgpack.packb of a meta document: a map
packb(meta) == [kind |-> "map", doc |-> meta]

\* the mutant: every packed value with a 'couple' is taken as the legacy list
parse_meta_Lifting(raw) ==
    [ok |-> TRUE,
     meta |-> [NoMeta EXCEPT !.version = 1, !.couple = raw.doc.couple,
                             !.namespace = "default"]]

\* Group.parse_meta applied to a packed document: the meta it stores, or
\* NoMeta with ok = FALSE when it raises 'Unable to parse meta'
parse_meta(raw) ==
    IF raw.kind = "array"
    THEN [ok |-> TRUE,
          meta |-> [NoMeta EXCEPT !.version = 1, !.couple = raw.doc.couple,
                                  !.namespace = "default"]]
    ELSE IF raw.kind = "map" /\ raw.doc.version = 2
    THEN [ok |-> TRUE, meta |-> raw.doc]
    ELSE [ok |-> FALSE, meta |-> NoMeta]

(***************************************************************************)
(* The state model (storage.py): groups, groupsets, namespaces.  A         *)
(* groupset is identified by the sorted list of its group ids (the key     *)
(* '1:2:3' of the repositories).                                           *)
(***************************************************************************)
GROUPSET_REPLICAS == "replicas"
GROUPSET_LRC == "lrc"

\* Groupset.__init__ / Couple.__init__ / Lrc822v1Groupset.__init__: raises
\* ValueError (ok = FALSE, nothing changed) when a group is already in a couple
NewGroupset(s, type, gids) ==
    LET key == SortedIds(gids) IN
    IF \E g \in gids : s.groups_couple[g] # NoGs
    THEN [ok |-> FALSE, s |-> s, key |-> key]
    ELSE [ok |-> TRUE, key |-> key,
          s |-> [s EXCEPT
                   !.groups_couple = [g \in AllGroups |->
                        IF g \in gids THEN key ELSE s.groups_couple[g]],
                   !.objs = (key :> [type |-> type, namespace |-> NoNs,
                                     lrc822v1_groupset |-> NoGs,
                                     couple |-> IF type = GROUPSET_REPLICAS
                                                THEN key ELSE NoGs])
                            @@ s.objs]]

\* Groupsets.add_groupset on the global repositories
AddGroupset(s, key) ==
    IF s.objs[key].type = GROUPSET_LRC
    THEN [s EXCEPT !.lrc_groupsets = @ \cup {key}]
    ELSE [s EXCEPT !.replicas_groupsets = @ \cup {key}]

\* Namespace.add_couple / Namespace.add_groupset: raises ValueError when the
\* groupset already belongs to a namespace
NsAddGroupset(s, ns, key) ==
    IF s.objs[key].namespace # NoNs
    THEN [ok |-> FALSE, s |-> s]
    ELSE [ok |-> TRUE,
          s |-> [s EXCEPT
                   !.ns_replicas[ns] =
                        IF s.objs[key].type = GROUPSET_REPLICAS
                        THEN @ \cup {key} ELSE @,
                   !.ns_lrc[ns] =
                        IF s.objs[key].type = GROUPSET_LRC
                        THEN @ \cup {key} ELSE @,
                   !.objs[key].namespace = ns]]

\* a removal that leaves the groupset among the members of the namespace
NsRemoveCouple_KeepMember(s, ns, key) ==
    [s EXCEPT !.objs[key].namespace = NoNs]

\* Namespace.remove_couple
NsRemoveCouple(s, ns, key) ==
    [s EXCEPT !.ns_replicas[ns] = @ \ {key},
              !.ns_lrc[ns] = @ \ {key},
              !.objs[key].namespace = NoNs]

\* a destruction that leaves the groups pointing to the groupset
Destroy_KeepPointers(s, key) ==
    LET s1 == IF s.objs[key].namespace # NoNs
              THEN NsRemoveCouple(s, s.objs[key].namespace, key) ELSE s
    IN [s1 EXCEPT
          !.replicas_groupsets = @ \ {key},
          !.lrc_groupsets = @ \ {key},
          !.objs = [k \in DOMAIN s1.objs \ {key} |-> s1.objs[k]]]

\* a destruction that leaves the groupset among the members of its namespace
Destroy_KeepNamespace(s, key) ==
    [s EXCEPT
       !.groups_couple = [g \in AllGroups |->
             IF s.groups_couple[g] = key THEN NoGs ELSE s.groups_couple[g]],
       !.replicas_groupsets = @ \ {key},
       !.lrc_groupsets = @ \ {key},
       !.objs = [k \in DOMAIN s.objs \ {key} |-> s.objs[k]]]

\* Groupset.destroy: detach from the namespace, clear the groups' pointers,
\* leave the repositories; the object is gone (groups = [])
Destroy(s, key) ==
    LET s1 == IF s.objs[key].namespace # NoNs
              THEN NsRemoveCouple(s, s.objs[key].namespace, key) ELSE s
    IN [s1 EXCEPT
          !.groups_couple = [g \in AllGroups |->
                IF s1.groups_couple[g] = key THEN NoGs
                ELSE s1.groups_couple[g]],
          !.replicas_groupsets = @ \ {key},
          !.lrc_groupsets = @ \ {key},
          !.objs = [k \in DOMAIN s1.objs \ {key} |-> s1.objs[k]]]

\* a tuple of the first group only
as_tuple_Head(key) == IF key = <<>> THEN key ELSE <<key[1]>>

\* Couple.as_tuple
as_tuple(key) == key

\* Groupset.frozen
GroupsetFrozen(s, key) ==
    \E g \in SeqSet(key) :
        s.groups_meta[g] # NoMeta /\ s.groups_meta[g].frozen

\* Couple.compose_group_meta
CoupleComposeGroupMeta(s, couple, settings) ==
    [NoMeta EXCEPT !.version = 2, !.couple = as_tuple(couple),
                   !.namespace = s.objs[couple].namespace,
                   !.frozen = settings.frozen]

\* Lrc822v1Groupset.compose_group_meta
LrcComposeGroupMeta(s, groupset, couple, settings) ==
    [NoMeta EXCEPT !.version = 2, !.couple = as_tuple(couple),
                   !.namespace = s.objs[couple].namespace,
                   !.frozen = GroupsetFrozen(s, couple),
                   !.type = TYPE_LRC_8_2_2_V1,
                   !.lrc = [groups |-> groupset,
                            part_size |-> settings.part_size,
                            scheme |-> Scheme822v1_ID]]


(***************************************************************************)
(* State.                                                                  *)
(***************************************************************************)
VARIABLES
    storage,              \* the state model: groups, groupsets, namespaces
    ns_settings,          \* infrastructure.ns_settings: "none", "set", "deleted"
    metakey,              \* SYMMETRIC_GROUPS_KEY as stored on each group
    persistent_locks,     \* group/<gid>: "free", "job" or "builder"
    cluster_lock,         \* holder of the 'cluster' lock, "free" when none
    forbidden_dc_sharing, \* config forbidden_dc_sharing_among_groups
    b,                    \* the build_couples handler: position and locals
    builds,               \* build_couples requests started
    brk,                  \* the break_couple handler
    nsd,                  \* the namespace_delete handler
    att,                  \* the attach_groupset_to_couple handler
    calls,                \* requests to the handlers next to build_couples
    rep,                  \* the repair_groups handler
    adm,                  \* the last freeze_couple, unfreeze_couple or
                          \* namespace_setup call
    calc                  \* one evaluation of a status or ordering function

vars == <<storage, ns_settings, metakey, persistent_locks, cluster_lock,
          forbidden_dc_sharing, b, builds, brk, nsd, att, calls, rep, adm,
          calc>>

\* the handlers next to build_couples, and the function evaluation
others == <<brk, nsd, att, calls, rep, adm, calc>>

\* the variables of the handlers, which the evaluations of functions leave
\* alone
program == <<storage, ns_settings, metakey, persistent_locks, cluster_lock,
             forbidden_dc_sharing, b, builds, brk, nsd, att, calls, rep, adm>>

\* the groups jobs take the persistent lock of
JobGroups == {1, NumGroups + 1}

LrcSettings == [scheme |-> Scheme822v1_ID, part_size |-> 1]
LrcOption == [type |-> GROUPSET_LRC, settings |-> LrcSettings]

\* the requests: what one couple is made of (size, total space matching,
\* mandatory groups) ...
SelectionRequests ==
    [size : {2, 3}, couples : {1}, namespace : {"img"},
     match_group_space : BOOLEAN, init_state : {"COUPLED"},
     mandatory_groups : {<<>>, <<{1}>>, <<{1, 4}>>, <<{1, 5}>>, <<{1, 2, 3}>>},
     groupsets : {<<>>}, dry_run : {FALSE}]

\* ... the options of the build (namespace, initial state, companion
\* groupsets, dry run) ...
OptionRequests ==
    [size : {2}, couples : {1}, namespace : NsIds,
     match_group_space : {TRUE}, init_state : {"COUPLED"},
     mandatory_groups : {<<>>}, groupsets : {<<>>, <<LrcOption>>},
     dry_run : BOOLEAN]
    \cup
    [size : {2}, couples : {1}, namespace : {"img"},
     match_group_space : {TRUE}, init_state : {"FROZEN"},
     mandatory_groups : {<<>>}, groupsets : {<<>>, <<LrcOption>>},
     dry_run : {FALSE}]

\* ... and several couples in one request
SeveralRequests ==
    [size : {2}, couples : 2..MaxCouples, namespace : {"img"},
     match_group_space : {TRUE}, init_state : {"COUPLED"},
     mandatory_groups : {<<>>, <<{2}, {1}>>, <<{1, 2, 3}, {4}>>},
     groupsets : {<<>>}, dry_run : BOOLEAN]

Requests == SelectionRequests \cup OptionRequests \cup SeveralRequests

NoRequest ==
    [size |-> 0, couples |-> 0, namespace |-> NoNs, match_group_space |-> TRUE,
     init_state |-> "COUPLED", mandatory_groups |-> <<>>, groupsets |-> <<>>,
     dry_run |-> FALSE]

EmptyStorage ==
    [groups_couple |-> [g \in AllGroups |-> NoGs],
     groups_meta |-> [g \in AllGroups |->
                        IF g \in LrcGroups THEN UncoupledLrcMeta(LrcTuple)
                        ELSE NoMeta],
     replicas_groupsets |-> {},
     lrc_groupsets |-> {},
     objs |-> <<>>,
     namespaces |-> {"img"},
     ns_replicas |-> [ns \in NsIds |-> {}],
     ns_lrc |-> [ns \in NsIds |-> {}]]

BuilderIdle ==
    [pc |-> "idle", req |-> NoRequest, gbts |-> <<>>, units |-> {},
     acct |-> [g \in DataGroups |-> 0], i |-> 0, res |-> <<>>,
     created |-> <<>>, mandatory |-> {}, cand |-> {}, lrc |-> <<>>,
     involved |-> {}, held |-> FALSE, acquired |-> {}, lock_errors |-> {},
     reads |-> <<>>, exc |-> "",
     next |-> "", couple |-> NoGs, couple_groupsets |-> <<>>,
     wgs |-> NoGs, packed |-> packb(NoMeta), suc |-> {}, failed |-> {},
     removed |-> {},
     raised |-> "", snap_storage |-> EmptyStorage,
     snap_metakey |-> [g \in AllGroups |-> NoMeta]]

\* a handler that is not running: where it is, what it works on, what its
\* last call raised
HandlerIdle == [pc |-> "idle", couple |-> NoGs, groupset |-> NoGs,
                namespace |-> NoNs, raised |-> ""]

\* the break_couple handler when it is not running: the couple, the
\* confirmation and the status of its last call, what that call raised
BreakIdle == [pc |-> "idle", couple |-> NoGs, confirm |-> <<>>,
              status |-> "", raised |-> ""]

\* the repair_groups handler when it is not running
RepairIdle == [pc |-> "idle", groupset |-> NoGs, namespace |-> NoNs,
               packed |-> packb(NoMeta), raised |-> ""]

\* no call of freeze_couple, unfreeze_couple or namespace_setup yet
NoCall == [op |-> "", couple |-> NoGs, namespace |-> NoNs, raised |-> "",
           pc |-> "idle", packed |-> packb(NoMeta)]

\* no function is being evaluated
NoCalc == [op |-> "none"]

Init ==
    /\ storage = EmptyStorage
    /\ ns_settings = [ns \in NsIds |-> "set"]
    /\ metakey = [g \in AllGroups |->
                    IF g \in LrcGroups THEN UncoupledLrcMeta(LrcTuple)
                    ELSE NoMeta]
    /\ persistent_locks = [g \in AllGroups |-> "free"]
    /\ cluster_lock = "free"
    /\ forbidden_dc_sharing \in BOOLEAN
    /\ b = BuilderIdle
    /\ builds = 0
    /\ brk = BreakIdle
    /\ nsd = HandlerIdle
    /\ att = HandlerIdle
    /\ calls = 0
    /\ rep = RepairIdle
    /\ adm = NoCall
    /\ calc = NoCalc

(***************************************************************************)
(* Parts of the environment the builder calls.                             *)
(***************************************************************************)
\* infrastructure.groups_by_total_space: the good uncoupled groups by total
\* space, in one bucket when match_group_space is false
GroupsByTotalSpace(s, match_group_space) ==
    LET uncoupled == {g \in DataGroups :
                         s.groups_couple[g] = NoGs /\ s.groups_meta[g] = NoMeta}
        keys == IF match_group_space
                THEN {GroupTotalSpace(g) : g \in uncoupled}
                ELSE IF uncoupled = {} THEN {} ELSE {0}
    IN [ts \in keys |->
            {g \in uncoupled : match_group_space => GroupTotalSpace(g) = ts}]

\* infrastructure.account_ns_couples: the groups of the namespace's couples
AccountNsCouples(s, ns) ==
    [g \in DataGroups |->
        IF \E key \in s.ns_replicas[ns] : g \in SeqSet(key) THEN 1 ELSE 0]

\* infrastructure.account_ns_groups
AccountNsGroups(acct, gids) ==
    [g \in DataGroups |-> IF g \in gids THEN acct[g] + 1 ELSE acct[g]]

\* the scheme builder's select_uncoupled_groups(skip_groups): the first tuple
\* of groups of type uncoupled_lrc-8-2-2-v1, <<>> on StopIteration
SelectUncoupledLrcGroups(s, skip_groups) ==
    IF /\ \A g \in LrcGroups :
              /\ s.groups_meta[g].type = TYPE_UNCOUPLED_LRC_8_2_2_V1
              /\ s.groups_meta[g].lrc_groups = LrcTuple
       /\ LrcGroups \cap skip_groups = {}
    THEN LrcTuple ELSE <<>>

\* Balancer._remove_unusable_groups: removes the groups found in a bucket from
\* the bucket AND from the list it was given
RemoveUnusableGroups(groups_by_total_space, groups) ==
    LET found == groups \cap UNION {groups_by_total_space[ts] :
                                       ts \in DOMAIN groups_by_total_space}
    IN [groups_by_total_space |->
            [ts \in DOMAIN groups_by_total_space |->
                groups_by_total_space[ts] \ groups],
        groups |-> groups \ found]


(***************************************************************************)
(* build_couples (balancer.py 1061-1122), __couple_groups (689-765),       *)
(* _build_couple (891-1027), _locked_uncoupled_groups (662-687).           *)
(***************************************************************************)
ErrorEntry(text) == [couple |-> NoGs, error |-> text]
CoupleEntry(key) == [couple |-> key, error |-> ""]

\* the handler returns or raises: back to idle, the outcome kept in b
BuildReturn(bb, raised) ==
    [BuilderIdle EXCEPT !.req = bb.req, !.res = bb.res, !.raised = raised,
                        !.created = bb.created,
                        !.acquired = bb.acquired,
                        !.lock_errors = bb.lock_errors,
                        !.snap_storage = bb.snap_storage,
                        !.snap_metakey = bb.snap_metakey]

\* build_couples up to the cluster lock: options, __check_namespace
BuildStart(req) ==
    /\ b.pc = "idle"
    /\ builds < MaxBuilds
    /\ builds' = builds + 1
    /\ LET bb == [BuilderIdle EXCEPT !.req = req,
                                     !.lock_errors = b.lock_errors,
                                     !.snap_storage = storage,
                                     !.snap_metakey = metakey]
       IN b' = IF ns_settings[req.namespace] # "set"
               THEN BuildReturn(bb, "ValueError")
               ELSE [bb EXCEPT !.pc = "cluster_lock"]
    /\ UNCHANGED <<storage, ns_settings, metakey, persistent_locks,
                   cluster_lock, forbidden_dc_sharing, others>>

\* sync_manager.lock(CLUSTER_CHANGES_LOCK, blocking=False)
BuildLockCluster ==
    /\ b.pc = "cluster_lock"
    /\ IF cluster_lock = "free"
       THEN /\ cluster_lock' = "build_couples"
            /\ b' = [b EXCEPT !.pc = "refresh"]
       ELSE /\ b' = BuildReturn(b, "LockAlreadyAcquiredError")
            /\ UNCHANGED cluster_lock
    /\ UNCHANGED <<storage, ns_settings, metakey, persistent_locks,
                   forbidden_dc_sharing, builds, others>>

\* __update_cluster_state, groups_by_total_space and the head of
\* __couple_groups: the tree, the namespace's couples, the units
BuildRefresh ==
    /\ b.pc = "refresh"
    /\ LET gbts == GroupsByTotalSpace(storage, b.req.match_group_space)
       IN b' = [b EXCEPT !.pc = "slot", !.i = 1,
                         !.gbts = gbts,
                         !.units = UNION {gbts[ts] : ts \in DOMAIN gbts},
                         !.acct = AccountNsCouples(storage, b.req.namespace)]
    /\ UNCHANGED <<storage, ns_settings, metakey, persistent_locks,
                   cluster_lock, forbidden_dc_sharing, builds, others>>

\* every iteration is given the mandatory groups of the first one
SlotMandatory_First(mandatory_groups, i) ==
    IF mandatory_groups = <<>> THEN {} ELSE mandatory_groups[1]

\* izip_longest(xrange(couples), options['mandatory_groups'][:couples]) and
\* 'mandatory_groups or []': the mandatory groups of iteration i
SlotMandatory(mandatory_groups, i) ==
    IF i <= Len(mandatory_groups) THEN mandatory_groups[i] ELSE {}

\* the head of one iteration of the loop of __couple_groups
BuildSlot ==
    /\ b.pc = "slot"
    /\ LET mandatory_groups == SlotMandatory(b.req.mandatory_groups, b.i)
       IN b' = IF b.i > b.req.couples
               THEN [b EXCEPT !.pc = "finish"]
               ELSE IF Cardinality(mandatory_groups) > b.req.size
               THEN [b EXCEPT !.i = @ + 1,
                              !.res = Append(@, ErrorEntry("ValueError"))]
               ELSE IF ~(mandatory_groups \subseteq b.units)
               THEN [b EXCEPT !.i = @ + 1,
                              !.res = Append(@, ErrorEntry("ValueError"))]
               ELSE [b EXCEPT !.pc = "choose",
                              !.mandatory = mandatory_groups,
                              !.acct = AccountNsGroups(@, mandatory_groups)]
    /\ UNCHANGED <<storage, ns_settings, metakey, persistent_locks,
                   cluster_lock, forbidden_dc_sharing, builds, others>>

\* _build_couple: the choice of the groups to couple and of the groups of
\* the companion groupsets
BuildChoose ==
    /\ b.pc = "choose"
    /\ \E c \in ChooseGroupsToCouple(b.acct, b.req.size, b.gbts, b.mandatory,
                                     forbidden_dc_sharing) :
          LET lrc == IF b.req.groupsets = <<>> THEN <<>>
                     ELSE SelectUncoupledLrcGroups(storage, c)
          IN b' = IF c = {}
                  THEN [b EXCEPT !.pc = "finish"]
                  ELSE IF b.req.groupsets # <<>> /\ lrc = <<>>
                  THEN [b EXCEPT !.pc = "finish"]
                  ELSE [b EXCEPT !.pc = "acquire", !.cand = c, !.lrc = lrc,
                                 !.involved = c \cup SeqSet(lrc),
                                 !.held = FALSE, !.reads = <<>>,
                                 !.couple = NoGs, !.couple_groupsets = <<>>,
                                 !.exc = "", !.next = ""]
    /\ UNCHANGED <<storage, ns_settings, metakey, persistent_locks,
                   cluster_lock, forbidden_dc_sharing, builds, others>>

\* _locked_uncoupled_groups up to its yield: persistent_locks_acquire takes
\* all the locks or none and names the ones already held
BuildAcquire ==
    /\ b.pc = "acquire"
    /\ LET busy == {g \in b.involved : persistent_locks[g] # "free"}
           r == RemoveUnusableGroups(b.gbts, busy)
           failed_group_ids == r.groups
           locked_uncoupled_group_ids == b.involved \ failed_group_ids
       IN IF busy = {}
          THEN /\ persistent_locks' =
                     [g \in AllGroups |->
                         IF g \in b.involved THEN "builder"
                         ELSE persistent_locks[g]]
               /\ b' = [b EXCEPT !.pc = "check", !.held = TRUE,
                                 !.acquired = @ \cup b.involved]
          ELSE /\ UNCHANGED persistent_locks
               /\ b' = IF b.involved # locked_uncoupled_group_ids
                       THEN [b EXCEPT !.pc = "choose",
                                      !.gbts = r.groups_by_total_space]
                       ELSE [b EXCEPT !.pc = "check",
                                      !.gbts = r.groups_by_total_space]
    /\ UNCHANGED <<storage, ns_settings, metakey, cluster_lock,
                   forbidden_dc_sharing, builds, others>>


\* error codes of a read of the metakey: -2 is 'no such key'
ENOENT == -2
\* the error codes other than -2 a read can end with: -110 is a timeout
OtherErrors == {-110}

\* what session.read_data answers for the key of group g when the storage
\* answers at all
ReadCode(g) == IF metakey[g] = NoMeta THEN ENOENT ELSE 0

\* the results of the reads of the keys of group_ids: the storage answers
\* for all the groups or for all but one
ReadResults(group_ids) ==
    {[g \in group_ids |-> IF g = t THEN code ELSE ReadCode(g)] :
        t \in group_ids \cup {0}, code \in OtherErrors}

\* a check that takes every error for the sign of a suitable group
GetUnsuitableUncoupledGroupIds_AnyError(group_ids, results) ==
    {g \in group_ids : results[g] = 0}

\* get_unsuitable_uncoupled_group_ids: -2 is the one and only sign that an
\* uncoupled group is suitable
GetUnsuitableUncoupledGroupIds(group_ids, results) ==
    {g \in group_ids : results[g] # ENOENT}

\* _build_couple 959-985: the couple, its companion groupsets and the
\* namespace are put into the state model
InstallCouple(s, groups_to_couple, lrc_groups, namespace) ==
    LET c == NewGroupset(s, GROUPSET_REPLICAS, groups_to_couple)
        s1 == AddGroupset(c.s, c.key)
        l == NewGroupset(s1, GROUPSET_LRC, SeqSet(lrc_groups))
        s2 == [AddGroupset(l.s, l.key)
                  EXCEPT !.objs[c.key].lrc822v1_groupset = l.key]
        s3 == IF lrc_groups = <<>> THEN s1 ELSE s2
        s4 == [s3 EXCEPT !.namespaces = @ \cup {namespace}]
        s5 == NsAddGroupset(s4, namespace, c.key).s
        s6 == IF lrc_groups = <<>> THEN s5
              ELSE NsAddGroupset(s5, namespace, l.key).s
    IN IF ~c.ok
       THEN [ok |-> FALSE, s |-> s, couple |-> NoGs, couple_groupsets |-> <<>>]
       ELSE IF lrc_groups # <<>> /\ ~l.ok
       \* Lrc822v1Groupset() raised: the couple stays in replicas_groupsets
       THEN [ok |-> FALSE, s |-> s1, couple |-> c.key,
             couple_groupsets |-> <<>>]
       ELSE [ok |-> TRUE, s |-> s6, couple |-> c.key,
             couple_groupsets |-> IF lrc_groups = <<>> THEN <<>>
                                  ELSE <<l.key>>]

\* the with block's body up to the first write: the empty metakey check and,
\* when all the groups are suitable, the installation into the state model
BuildCheck ==
    /\ b.pc = "check"
    /\ \E inst \in {InstallCouple(storage, b.cand, b.lrc, b.req.namespace)},
          results \in ReadResults(b.involved) :
             LET unsuitable_group_ids ==
                     GetUnsuitableUncoupledGroupIds(b.involved, results)
                 meta == CoupleComposeGroupMeta(inst.s, inst.couple,
                            [frozen |-> b.req.init_state = "FROZEN"])
             IN IF unsuitable_group_ids # {}
                THEN /\ b' = [b EXCEPT !.pc = "release", !.next = "continue",
                                       !.reads = results]
                     /\ UNCHANGED storage
                ELSE IF ~inst.ok
                THEN /\ b' = [b EXCEPT !.pc = "release", !.next = "raise",
                                       !.reads = results,
                                       !.exc = "ValueError"]
                     /\ storage' = inst.s
                ELSE /\ storage' = inst.s
                     /\ b' = IF b.req.dry_run
                             THEN [b EXCEPT !.pc = "release",
                                            !.next = "return",
                                            !.reads = results,
                                            !.couple = inst.couple,
                                            !.couple_groupsets =
                                                inst.couple_groupsets]
                             ELSE [b EXCEPT !.pc = "write",
                                            !.reads = results,
                                            !.couple = inst.couple,
                                            !.couple_groupsets =
                                                inst.couple_groupsets,
                                            !.wgs = inst.couple,
                                            !.packed = packb(meta)]
    /\ UNCHANGED <<ns_settings, metakey, persistent_locks, cluster_lock,
                   forbidden_dc_sharing, builds, others>>

\* the except branch of _build_couple 1014-1018
DestroyBuilt(s, couple, couple_groupsets) ==
    LET s1 == IF couple \in DOMAIN s.objs THEN Destroy(s, couple) ELSE s
    IN IF couple_groupsets # <<>> /\ couple_groupsets[1] \in DOMAIN s1.objs
       THEN Destroy(s1, couple_groupsets[1]) ELSE s1

\* the groups' metas after write_groupset_metakey parsed the packed document
ParsedMetas(s, key, packed) ==
    [s EXCEPT !.groups_meta = [g \in AllGroups |->
        IF g \in SeqSet(key) THEN parse_meta(packed).meta
        ELSE s.groups_meta[g]]]

\* write_groupset_metakey: consistent_write's write_retry came back with the
\* groups that took the key and the groups that did not
BuildWrite ==
    /\ b.pc = "write"
    /\ \E failed_groups \in SUBSET SeqSet(b.wgs) :
          LET suc_groups == SeqSet(b.wgs) \ failed_groups
              is_couple == b.wgs = b.couple
              s1 == ParsedMetas(storage, b.wgs, b.packed)
              lrc_meta == LrcComposeGroupMeta(s1, b.couple_groupsets[1],
                              b.couple, b.req.groupsets[1].settings)
          IN /\ metakey' = [g \in AllGroups |->
                    IF g \in suc_groups THEN b.packed.doc ELSE metakey[g]]
             /\ IF failed_groups # {}
                THEN /\ b' = [b EXCEPT !.pc = "rollback", !.suc = suc_groups,
                                       !.failed = failed_groups]
                     /\ UNCHANGED storage
                ELSE IF is_couple /\ b.couple_groupsets # <<>>
                THEN /\ storage' = s1
                     /\ b' = [b EXCEPT !.wgs = b.couple_groupsets[1],
                                       !.packed = packb(lrc_meta)]
                ELSE IF is_couple
                THEN /\ storage' = s1
                     /\ b' = [b EXCEPT !.pc = "update_status"]
                ELSE \* the companion groupset: couple_groupset.couple = couple
                     /\ storage' = [s1 EXCEPT !.objs[b.wgs].couple = b.couple]
                     /\ b' = [b EXCEPT !.pc = "update_status"]
    /\ UNCHANGED <<ns_settings, persistent_locks, cluster_lock,
                   forbidden_dc_sharing, builds, others>>

\* a rollback over all the groups of the session
RollbackGroups_All(suc_groups, failed_groups) == suc_groups \cup failed_groups

\* consistent_write 1849: s.set_groups(suc_groups), the groups remove_retry is
\* called on
RollbackGroups(suc_groups, failed_groups) == suc_groups

\* consistent_write after a failed write: remove_retry on the groups that took
\* the key, then RuntimeError whatever it left; _build_couple destroys the
\* couple and its groupsets and raises
BuildRollback ==
    /\ b.pc = "rollback"
    /\ \E left_groups \in SUBSET RollbackGroups(b.suc, b.failed) :
          metakey' = [g \in AllGroups |->
                IF g \in RollbackGroups(b.suc, b.failed) \ left_groups
                THEN NoMeta ELSE metakey[g]]
    /\ storage' = DestroyBuilt(storage, b.couple, b.couple_groupsets)
    /\ b' = [b EXCEPT !.pc = "release", !.next = "raise",
                      !.exc = "RuntimeError",
                      !.removed = RollbackGroups(b.suc, b.failed)]
    /\ UNCHANGED <<ns_settings, persistent_locks, cluster_lock,
                   forbidden_dc_sharing, builds, others>>

\* couple.update_status() and the groupsets' after the writes: returns, or
\* raises from Group.update_storage_group_status (storage.py 1745 names an
\* undefined TYPE_DATA) when a group gets that far in its cascade
BuildUpdateStatus ==
    /\ b.pc = "update_status"
    /\ \E raises \in BOOLEAN :
          b' = IF raises
               THEN [b EXCEPT !.pc = "release", !.next = "raise",
                              !.exc = "NameError"]
               ELSE [b EXCEPT !.pc = "release", !.next = "return"]
    /\ UNCHANGED <<storage, ns_settings, metakey, persistent_locks,
                   cluster_lock, forbidden_dc_sharing, builds, others>>


\* an exit that leaves the locks as they are
LocksAfterRelease_Kept(locks, uncoupled_groups, lock_error) == locks

\* the finally block of _locked_uncoupled_groups: persistent_locks_release
\* of all the locks taken; a LockError leaves them as they are
LocksAfterRelease(locks, uncoupled_groups, lock_error) ==
    [g \in DOMAIN locks |->
        IF g \in uncoupled_groups /\ ~lock_error THEN "free" ELSE locks[g]]

\* the end of the with block: _locked_uncoupled_groups after its yield, and
\* what _build_couple and __couple_groups do with the outcome
BuildRelease ==
    /\ b.pc = "release"
    /\ \E release_fails \in BOOLEAN :
          LET \* persistent_locks_release: LockError leaves the locks held
              lock_error == b.held /\ release_fails
              gbts == IF b.held
                      THEN RemoveUnusableGroups(b.gbts, b.involved)
                               .groups_by_total_space
                      ELSE b.gbts
              next == IF lock_error THEN "raise" ELSE b.next
              exc == IF lock_error THEN "RuntimeError" ELSE b.exc
              bb == [b EXCEPT !.gbts = gbts, !.held = FALSE, !.cand = {},
                              !.lrc = <<>>, !.involved = {},
                              !.reads = <<>>, !.exc = "", !.next = "",
                              !.couple = NoGs, !.couple_groupsets = <<>>,
                              !.wgs = NoGs, !.packed = packb(NoMeta),
                              !.suc = {}, !.failed = {}, !.removed = {},
                              !.lock_errors =
                                  IF lock_error THEN @ \cup b.involved ELSE @,
                              !.mandatory =
                                  IF next = "continue" THEN b.mandatory
                                  ELSE {}]
          IN /\ (~b.held => ~release_fails)
             /\ persistent_locks' =
                   IF b.held
                   THEN LocksAfterRelease(persistent_locks, b.involved,
                                          release_fails)
                   ELSE persistent_locks
             /\ b' = IF next = "continue"
                     THEN [bb EXCEPT !.pc = "choose"]
                     ELSE IF next = "raise"
                     THEN [bb EXCEPT !.pc = "slot", !.i = @ + 1,
                                     !.res = Append(@, ErrorEntry(exc))]
                     ELSE [bb EXCEPT !.pc = "slot", !.i = @ + 1,
                                     !.acct = AccountNsGroups(@, b.cand),
                                     !.created = Append(@, b.couple),
                                     !.res = Append(@, CoupleEntry(b.couple))]
    /\ UNCHANGED <<storage, ns_settings, metakey, cluster_lock,
                   forbidden_dc_sharing, builds, others>>

RECURSIVE DestroyAll(_, _)
\* for couple in created_couples: couple.destroy()
DestroyAll(s, couples) ==
    IF couples = <<>> THEN s
    ELSE DestroyAll(IF Head(couples) \in DOMAIN s.objs
                    THEN Destroy(s, Head(couples)) ELSE s,
                    Tail(couples))

NotEnough == "Not enough valid dcs and/or groups"

\* the tail of __couple_groups and the end of build_couples: the missing
\* results, the destruction of the couples of a dry run, the cluster lock
BuildFinish ==
    /\ b.pc = "finish"
    /\ storage' = IF b.req.dry_run THEN DestroyAll(storage, b.created)
                  ELSE storage
    /\ cluster_lock' = "free"
    /\ b' = BuildReturn(
               [b EXCEPT !.res = @ \o [k \in 1..(b.req.couples - Len(b.res))
                                          |-> ErrorEntry(NotEnough)]], "")
    /\ UNCHANGED <<ns_settings, metakey, persistent_locks,
                   forbidden_dc_sharing, builds, others>>

(***************************************************************************)
(* The environment: jobs take and release persistent group locks.  The    *)
(* builder reads the locks only in BuildAcquire, so the steps of the jobs  *)
(* are scheduled right before it.                                          *)
(***************************************************************************)
JobLock(g) ==
    /\ b.pc = "acquire"
    /\ persistent_locks[g] = "free"
    /\ persistent_locks' = [persistent_locks EXCEPT ![g] = "job"]
    /\ UNCHANGED <<storage, ns_settings, metakey, cluster_lock,
                   forbidden_dc_sharing, b, builds, others>>

JobUnlock(g) ==
    /\ b.pc = "acquire"
    /\ persistent_locks[g] = "job"
    /\ persistent_locks' = [persistent_locks EXCEPT ![g] = "free"]
    /\ UNCHANGED <<storage, ns_settings, metakey, cluster_lock,
                   forbidden_dc_sharing, b, builds, others>>

(***************************************************************************)
(* The environment: the storage is an external system, and what it holds  *)
(* can differ from the cached metas: somebody leaves a key on a group the  *)
(* model holds for uncoupled, the key of a prepared LRC group is lost.     *)
(* The builder reads the keys only in BuildCheck, so these steps are       *)
(* scheduled right before it.                                              *)
(***************************************************************************)
ExternalWrite(g) ==
    /\ b.pc = "check"
    /\ g \in b.involved
    /\ metakey[g] = NoMeta
    /\ metakey' = [metakey EXCEPT ![g] = ForeignMeta(g)]
    /\ UNCHANGED <<storage, ns_settings, persistent_locks, cluster_lock,
                   forbidden_dc_sharing, b, builds, others>>

ExternalRemove(g) ==
    /\ b.pc = "check"
    /\ g \in b.involved
    /\ metakey[g] = UncoupledLrcMeta(LrcTuple)
    /\ metakey' = [metakey EXCEPT ![g] = NoMeta]
    /\ UNCHANGED <<storage, ns_settings, persistent_locks, cluster_lock,
                   forbidden_dc_sharing, b, builds, others>>

\* the data group somebody else writes a key to
ForeignGroups == {2}

External ==
    \/ \E g \in ForeignGroups : ExternalWrite(g)
    \/ \E g \in LrcGroups : ExternalRemove(g)

Build ==
    \/ BuildLockCluster
    \/ BuildRefresh
    \/ BuildSlot
    \/ BuildChoose
    \/ BuildAcquire
    \/ BuildCheck
    \/ BuildWrite
    \/ BuildRollback
    \/ BuildUpdateStatus
    \/ BuildRelease
    \/ BuildFinish

Jobs ==
    \/ \E g \in JobGroups : JobLock(g)
    \/ \E g \in JobGroups : JobUnlock(g)

Next ==
    \/ \E req \in Requests : BuildStart(req)
    \/ Build
    \/ Jobs
    \/ External

Spec == Init /\ [][Next]_vars


(***************************************************************************)
(* The other handlers that change the set of couples and groupsets:        *)
(* break_couple (balancer.py 1124-1168), namespace_delete (1515-1546),     *)
(* attach_groupset_to_couple (596-643).                                    *)
(***************************************************************************)
\* the couples a request can name
RequestKeys ==
    {SortedIds(S) : S \in {T \in SUBSET DataGroups : Cardinality(T) = 2}}

HandlerRaised(exc) == [HandlerIdle EXCEPT !.raised = exc]

\* break_couple up to _force_nodes_update: the cluster lock, the couple
BreakStart(key) ==
    /\ brk.pc = "idle"
    /\ calls < MaxCalls
    /\ calls' = calls + 1
    /\ IF cluster_lock # "free"
       THEN /\ brk' = [BreakIdle EXCEPT !.raised = "LockAlreadyAcquiredError"]
            /\ UNCHANGED cluster_lock
       ELSE IF key \notin storage.replicas_groupsets
       THEN /\ brk' = [BreakIdle EXCEPT !.raised = "KeyError"]
            /\ UNCHANGED cluster_lock
       ELSE /\ brk' = [BreakIdle EXCEPT !.pc = "kill", !.couple = key]
            /\ cluster_lock' = "break_couple"
    /\ UNCHANGED <<storage, ns_settings, metakey, persistent_locks,
                   forbidden_dc_sharing, b, builds, nsd, att, rep, adm, calc>>

\* storage.NOT_BAD_STATUSES
NOT_BAD_STATUSES == {"OK", "FULL", "FROZEN"}

\* ':'.join(map(str, ids)) as the pieces of the string
couple_str(ids) ==
    IF Len(ids) = 0 THEN <<>>
    ELSE <<ids[1]>> \o [i \in 1..(2 * (Len(ids) - 1)) |->
                           IF i % 2 = 1 THEN ":" ELSE ids[(i \div 2) + 1]]

\* break_couple accepting the confirmation without brackets only
correct_confirms_Plain(status, ids) ==
    LET correct_confirm ==
            <<"Yes, I want to break ",
              IF status \in NOT_BAD_STATUSES THEN "good" ELSE "bad",
              " couple ">>
    IN  {correct_confirm \o couple_str(ids)}

\* the confirmations break_couple accepts for a couple of this status
correct_confirms(status, ids) ==
    LET correct_confirm ==
            <<"Yes, I want to break ",
              IF status \in NOT_BAD_STATUSES THEN "good" ELSE "bad",
              " couple ">>
    IN  {correct_confirm \o couple_str(ids),
         correct_confirm \o <<"[">> \o couple_str(ids) \o <<"]">>}

\* the confirmations a request for the couple can carry
Confirmations(ids) ==
    LET reversed == [i \in 1..Len(ids) |-> ids[Len(ids) + 1 - i]]
        text(word, tail) == <<"Yes, I want to break ", word, " couple ">> \o tail
    IN  {<<>>, text("good", couple_str(reversed))}
            \cup {text(word, couple_str(ids)) : word \in {"good", "bad"}}
            \cup {text(word, <<"[">> \o couple_str(ids) \o <<"]">>) :
                     word \in {"good", "bad"}}

\* the statuses the couple can be in after _force_nodes_update
BreakStatuses(key) ==
    IF GroupsetFrozen(storage, key) THEN {"FROZEN", "BAD"}
    ELSE {"OK", "FULL", "BAD"}

\* the rest of break_couple: the confirmation, kill_symm_group, the metas of
\* the groups, couple.destroy()
BreakKill ==
    /\ brk.pc = "kill"
    /\ cluster_lock' = "free"
    /\ \E confirm \in Confirmations(brk.couple),
          status \in BreakStatuses(brk.couple),
          failed_groups \in SUBSET SeqSet(brk.couple) :
          LET done == [BreakIdle EXCEPT !.couple = brk.couple,
                                        !.confirm = confirm,
                                        !.status = status]
          IN
          /\ confirm \notin correct_confirms(status, brk.couple)
                => failed_groups = {}
          /\ IF confirm \notin correct_confirms(status, brk.couple)
             THEN /\ brk' = [done EXCEPT !.raised = "Exception"]
                  /\ UNCHANGED <<storage, metakey>>
             ELSE /\ metakey' = [g \in AllGroups |->
                        IF g \in SeqSet(brk.couple) \ failed_groups
                        THEN NoMeta ELSE metakey[g]]
                  /\ IF failed_groups # {}
                     THEN /\ brk' = [done EXCEPT !.raised = "RuntimeError"]
                          /\ UNCHANGED storage
                     ELSE /\ brk' = done
                          /\ storage' =
                               Destroy([storage EXCEPT !.groups_meta =
                                           [g \in AllGroups |->
                                               IF g \in SeqSet(brk.couple)
                                               THEN NoMeta
                                               ELSE storage.groups_meta[g]]],
                                       brk.couple)
    /\ UNCHANGED <<ns_settings, persistent_locks, forbidden_dc_sharing, b,
                   builds, nsd, att, calls, rep, adm, calc>>

\* namespace_delete up to __update_cluster_state: the cluster lock
NsDeleteStart(ns) ==
    /\ nsd.pc = "idle"
    /\ calls < MaxCalls
    /\ calls' = calls + 1
    /\ IF cluster_lock # "free"
       THEN /\ nsd' = HandlerRaised("LockAlreadyAcquiredError")
            /\ UNCHANGED cluster_lock
       ELSE /\ nsd' = [HandlerIdle EXCEPT !.pc = "body", !.namespace = ns]
            /\ cluster_lock' = "namespace_delete"
    /\ UNCHANGED <<storage, ns_settings, metakey, persistent_locks,
                   forbidden_dc_sharing, b, builds, brk, att, rep, adm, calc>>

\* the rest of namespace_delete: __check_namespace, the couples of the
\* namespace, the settings
NsDeleteBody ==
    /\ nsd.pc = "body"
    /\ cluster_lock' = "free"
    /\ IF ns_settings[nsd.namespace] # "set"
       THEN /\ nsd' = HandlerRaised("ValueError")
            /\ UNCHANGED ns_settings
       ELSE IF /\ nsd.namespace \in storage.namespaces
               /\ storage.ns_replicas[nsd.namespace] # {}
       THEN /\ nsd' = HandlerRaised("ValueError")
            /\ UNCHANGED ns_settings
       ELSE /\ nsd' = HandlerIdle
            /\ ns_settings' = [ns_settings EXCEPT ![nsd.namespace] = "deleted"]
    /\ UNCHANGED <<storage, metakey, persistent_locks, forbidden_dc_sharing,
                   b, builds, brk, att, calls, rep, adm, calc>>

\* the 'groupset' id lists of the requests: the prepared LRC groups, and a
\* list that is shorter than the stripe
AttachGroupLists == {LrcTuple, SubSeq(LrcTuple, 1, Len(LrcTuple) - 1)}

\* attach_groupset_to_couple up to write_groupset_metakey: the groupset of
\* the groups of the request is made and put into the repositories and into
\* the namespace of the couple
AttachStart(key, group_ids) ==
    /\ att.pc = "idle"
    /\ calls < MaxCalls
    /\ calls' = calls + 1
    /\ LET l == NewGroupset(storage, GROUPSET_LRC, SeqSet(group_ids))
           s1 == AddGroupset(l.s, l.key)
       IN IF key \notin storage.replicas_groupsets
          THEN /\ att' = HandlerRaised("ResourceError")
               /\ UNCHANGED storage
          ELSE IF ~l.ok
          THEN /\ att' = HandlerRaised("ValueError")
               /\ UNCHANGED storage
          ELSE IF storage.objs[key].namespace = NoNs
          THEN /\ att' = [HandlerRaised("AttributeError") EXCEPT
                                 !.couple = key, !.groupset = l.key]
               /\ storage' = s1
          ELSE /\ att' = [HandlerIdle EXCEPT !.pc = "write", !.couple = key,
                                             !.groupset = l.key]
               /\ storage' = NsAddGroupset(s1, storage.objs[key].namespace,
                                           l.key).s
    /\ UNCHANGED <<ns_settings, metakey, persistent_locks, cluster_lock,
                   forbidden_dc_sharing, b, builds, brk, nsd, rep, adm, calc>>

\* the rest of attach_groupset_to_couple: write_groupset_metakey, the
\* groupset destroyed when it raises, linked to the couple when it returns
AttachWrite ==
    /\ att.pc = "write"
    /\ \E failed_groups \in SUBSET SeqSet(att.groupset) :
       \E left_groups \in SUBSET (SeqSet(att.groupset) \ failed_groups) :
          LET suc_groups == SeqSet(att.groupset) \ failed_groups
              alive == /\ att.couple \in DOMAIN storage.objs
                       /\ storage.objs[att.couple].namespace # NoNs
              packed == packb(LrcComposeGroupMeta(storage, att.groupset,
                                                  att.couple, LrcSettings))
          IN /\ failed_groups = {} => left_groups = {}
             /\ IF ~alive
                THEN \* compose_group_meta: couple.namespace is None
                     /\ failed_groups = {}
                     /\ att' = [HandlerRaised("AttributeError") EXCEPT
                                       !.couple = att.couple,
                                       !.groupset = att.groupset]
                     /\ storage' = Destroy(storage, att.groupset)
                     /\ UNCHANGED metakey
                ELSE IF failed_groups # {}
                THEN /\ att' = [HandlerRaised("RuntimeError") EXCEPT
                                       !.couple = att.couple,
                                       !.groupset = att.groupset]
                     /\ storage' = Destroy(storage, att.groupset)
                     /\ metakey' = [g \in AllGroups |->
                           IF g \in left_groups THEN packed.doc
                           ELSE IF g \in suc_groups THEN NoMeta
                           ELSE metakey[g]]
                ELSE /\ att' = HandlerIdle
                     /\ storage' =
                          [ParsedMetas(storage, att.groupset, packed)
                              EXCEPT !.objs[att.couple].lrc822v1_groupset =
                                         att.groupset]
                     /\ metakey' = [g \in AllGroups |->
                           IF g \in suc_groups THEN packed.doc
                           ELSE metakey[g]]
    /\ UNCHANGED <<ns_settings, persistent_locks, cluster_lock,
                   forbidden_dc_sharing, b, builds, brk, nsd, calls, rep, adm, calc>>

BreakCouple ==
    \/ \E key \in RequestKeys : BreakStart(key)
    \/ BreakKill

NamespaceDelete ==
    \/ \E ns \in NsIds : NsDeleteStart(ns)
    \/ NsDeleteBody

AttachGroupset ==
    \/ \E key \in RequestKeys, group_ids \in AttachGroupLists :
          AttachStart(key, group_ids)
    \/ AttachWrite

(***************************************************************************)
(* repair_groups (balancer.py 400-451): no cluster lock.  The status of a  *)
(* groupset follows the monitoring of its groups, which the cluster does   *)
(* not decide: the handler finds the groupset bad or not.                  *)
(***************************************************************************)
RepairRaised(exc) == [RepairIdle EXCEPT !.raised = exc]

\* the groups and the namespaces repair_groups is called with
RepairGroups == {1, NumGroups}

\* groupset.compose_group_meta(couple=groupset.couple, settings=
\* groupset.groupset_settings) of write_groupset_metakey; ok = FALSE when
\* the couple is None or has no namespace (AttributeError)
RepairComposeMeta(s, groupset) ==
    LET couple == s.objs[groupset].couple IN
    IF couple = NoGs \/ couple \notin DOMAIN s.objs
    THEN [ok |-> FALSE, meta |-> NoMeta]
    ELSE IF s.objs[couple].namespace = NoNs
    THEN [ok |-> FALSE, meta |-> NoMeta]
    ELSE [ok |-> TRUE,
          meta |-> IF s.objs[groupset].type = GROUPSET_REPLICAS
                   THEN CoupleComposeGroupMeta(s, couple,
                            [frozen |-> GroupsetFrozen(s, groupset)])
                   ELSE LrcComposeGroupMeta(s, groupset, couple, LrcSettings)]

\* repair_groups up to the write of the metakey: the checks, the move of the
\* groupset to the namespace to use, the document to write
RepairStart(g, force_namespace) ==
    /\ rep.pc = "idle"
    /\ calls < MaxCalls
    /\ calls' = calls + 1
    /\ \E bad \in BOOLEAN :
          LET groupset == storage.groups_couple[g]
              current == storage.objs[groupset].namespace
              namespace_to_use == IF force_namespace # NoNs
                                  THEN force_namespace ELSE current
              s1 == NsRemoveCouple(storage, current, groupset)
              s2 == IF namespace_to_use = current THEN storage
                    ELSE NsAddGroupset(s1, namespace_to_use, groupset).s
              composed == RepairComposeMeta(s2, groupset)
          IN IF groupset = NoGs
             THEN /\ ~bad
                  /\ rep' = RepairRaised("ValueError")
                  /\ UNCHANGED storage
             ELSE IF ~bad
             THEN /\ rep' = RepairRaised("ValueError")
                  /\ UNCHANGED storage
             ELSE IF current = NoNs
             THEN /\ rep' = RepairRaised("AttributeError")
                  /\ UNCHANGED storage
             ELSE IF namespace_to_use # current
                     /\ namespace_to_use \notin storage.namespaces
             THEN /\ rep' = RepairRaised("ResourceError")
                  /\ storage' = s1
             ELSE IF ~composed.ok
             THEN /\ rep' = RepairRaised("AttributeError")
                  /\ storage' = s2
             ELSE /\ rep' = [RepairIdle EXCEPT !.pc = "write",
                                               !.groupset = groupset,
                                               !.namespace = namespace_to_use,
                                               !.packed = packb(composed.meta)]
                  /\ storage' = s2
    /\ UNCHANGED <<ns_settings, metakey, persistent_locks, cluster_lock,
                   forbidden_dc_sharing, b, builds, brk, nsd, att, adm, calc>>

\* the rest of repair_groups: consistent_write without rollback, the metas
\* of the groups
RepairWrite ==
    /\ rep.pc = "write"
    /\ \E failed_groups \in SUBSET SeqSet(rep.groupset) :
          LET suc_groups == SeqSet(rep.groupset) \ failed_groups IN
          /\ metakey' = [g \in AllGroups |->
                IF g \in suc_groups THEN rep.packed.doc ELSE metakey[g]]
          /\ IF failed_groups # {}
             THEN /\ rep' = RepairRaised("RuntimeError")
                  /\ UNCHANGED storage
             ELSE /\ rep' = [RepairIdle EXCEPT !.groupset = rep.groupset,
                                               !.namespace = rep.namespace]
                  /\ storage' = IF rep.groupset \in DOMAIN storage.objs
                                THEN ParsedMetas(storage, rep.groupset,
                                                 rep.packed)
                                ELSE storage
    /\ UNCHANGED <<ns_settings, persistent_locks, cluster_lock,
                   forbidden_dc_sharing, b, builds, brk, nsd, att, calls,
                   adm, calc>>

RepairGroupsHandler ==
    \/ \E g \in RepairGroups, ns \in NsIds \cup {NoNs} : RepairStart(g, ns)
    \/ RepairWrite

(***************************************************************************)
(* freeze_couple, unfreeze_couple (balancer.py 1568-1630) and              *)
(* namespace_setup (1410-1503): no cluster lock.                           *)
(***************************************************************************)
CallRaised(op, exc) == [NoCall EXCEPT !.op = op, !.raised = exc]

\* freeze_couple / unfreeze_couple up to the write_retry of
\* __do_set_meta_freeze: the couple, its frozen state, the document to write
SetMetaFreeze(key, freeze) ==
    /\ adm.pc = "idle"
    /\ calls < MaxCalls
    /\ calls' = calls + 1
    /\ LET op == IF freeze THEN "freeze_couple" ELSE "unfreeze_couple"
           known == key \in storage.replicas_groupsets
           packed == packb(CoupleComposeGroupMeta(storage, key,
                                                  [frozen |-> freeze]))
       IN IF ~known
          THEN adm' = CallRaised(op, "ResourceError")
          ELSE IF GroupsetFrozen(storage, key) = freeze
          THEN adm' = CallRaised(op, "ValueError")
          ELSE IF storage.objs[key].namespace = NoNs
          THEN adm' = CallRaised(op, "AttributeError")
          ELSE adm' = [NoCall EXCEPT !.op = op, !.couple = key,
                                     !.pc = "write", !.packed = packed]
    /\ UNCHANGED <<storage, ns_settings, metakey, persistent_locks,
                   cluster_lock, forbidden_dc_sharing, b, builds, brk, nsd,
                   att, rep, calc>>

\* the rest of freeze_couple / unfreeze_couple: write_retry came back, no
\* rollback when it failed on some groups; else the groups the couple still
\* has parse the document and couple.update_status() follows, which raises
\* on a couple that was destroyed in the meantime when it looks for the
\* settings of its namespace
SetMetaFreezeWrite ==
    /\ adm.pc = "write"
    /\ \E failed_groups \in SUBSET SeqSet(adm.couple),
          ns_checked \in BOOLEAN :
          LET done == [adm EXCEPT !.pc = "idle", !.packed = packb(NoMeta)]
              alive == adm.couple \in DOMAIN storage.objs
          IN /\ (failed_groups # {} \/ alive) => ns_checked
             /\ metakey' = [g \in AllGroups |->
                   IF g \in SeqSet(adm.couple) \ failed_groups
                   THEN adm.packed.doc ELSE metakey[g]]
             /\ IF failed_groups # {}
                THEN /\ adm' = [done EXCEPT !.raised = "RuntimeError"]
                     /\ UNCHANGED storage
                ELSE IF alive
                THEN /\ adm' = done
                     /\ storage' = ParsedMetas(storage, adm.couple, adm.packed)
                ELSE /\ adm' = [done EXCEPT !.raised =
                                   IF ns_checked THEN "AttributeError" ELSE ""]
                     /\ UNCHANGED storage
    /\ UNCHANGED <<ns_settings, persistent_locks, cluster_lock,
                   forbidden_dc_sharing, b, builds, brk, nsd, att, calls, rep,
                   calc>>

\* what a namespace_setup request says of __service.is_deleted
ServiceFlags == {"absent", "true", "false"}

\* namespace_setup: the settings of the request merged into the current ones
\* (none with overwrite; only __service when the namespace is deleted), then
\* set_ns_settings
NsSettingsAfterSetup(cur, overwrite, is_deleted) ==
    IF is_deleted = "true" THEN "deleted"
    ELSE IF is_deleted = "false" THEN "set"
    ELSE IF ~overwrite /\ cur = "deleted" THEN "deleted"
    ELSE "set"

NamespaceSetup(ns, overwrite, is_deleted) ==
    /\ adm.pc = "idle"
    /\ calls < MaxCalls
    /\ calls' = calls + 1
    /\ ns_settings' = [ns_settings EXCEPT ![ns] =
                          NsSettingsAfterSetup(@, overwrite, is_deleted)]
    /\ adm' = [NoCall EXCEPT !.op = "namespace_setup", !.namespace = ns]
    /\ UNCHANGED <<storage, metakey, persistent_locks, cluster_lock,
                   forbidden_dc_sharing, b, builds, brk, nsd, att, rep, calc>>

FreezeCouple ==
    \/ \E key \in RequestKeys : SetMetaFreeze(key, TRUE)
    \/ SetMetaFreezeWrite

UnfreezeCouple == \E key \in RequestKeys : SetMetaFreeze(key, FALSE)

NamespaceSetupHandler ==
    \E ns \in NsIds, overwrite \in BOOLEAN, is_deleted \in ServiceFlags :
        NamespaceSetup(ns, overwrite, is_deleted)

\* a cluster with one couple, of the last two data groups, in namespace img
ClusterCouple == SortedIds({NumGroups - 1, NumGroups})

ClusterStorage ==
    LET c == InstallCouple(EmptyStorage, SeqSet(ClusterCouple), <<>>, "img")
    IN ParsedMetas(c.s, c.couple,
                   packb(CoupleComposeGroupMeta(c.s, c.couple,
                                                [frozen |-> FALSE])))

\* the build requests sent to that cluster
ClusterRequests ==
    [size : {2}, couples : {1}, namespace : NsIds,
     match_group_space : {TRUE}, init_state : {"COUPLED"},
     mandatory_groups : {<<>>}, groupsets : {<<>>}, dry_run : BOOLEAN]

InitCluster ==
    /\ storage = ClusterStorage
    /\ ns_settings = [ns \in NsIds |-> "set"]
    /\ metakey = [g \in AllGroups |->
                    IF g \in LrcGroups THEN UncoupledLrcMeta(LrcTuple)
                    ELSE ClusterStorage.groups_meta[g]]
    /\ persistent_locks = [g \in AllGroups |-> "free"]
    /\ cluster_lock = "free"
    /\ forbidden_dc_sharing \in BOOLEAN
    /\ b = BuilderIdle
    /\ builds = 0
    /\ brk = BreakIdle
    /\ nsd = HandlerIdle
    /\ att = HandlerIdle
    /\ calls = 0
    /\ rep = RepairIdle
    /\ adm = NoCall
    /\ calc = NoCalc

NextCluster ==
    \/ \E req \in ClusterRequests : BuildStart(req)
    \/ Build
    \/ BreakCouple
    \/ NamespaceDelete
    \/ AttachGroupset
    \/ RepairGroupsHandler
    \/ FreezeCouple
    \/ UnfreezeCouple
    \/ NamespaceSetupHandler

SpecCluster == InitCluster /\ [][NextCluster]_vars


(***************************************************************************)
(* Properties of build_couples.                                            *)
(***************************************************************************)
\* where the builder works on an installed couple or on the keys of a
\* candidate
Building == {"check", "write", "rollback", "update_status"}

\* the mandatory groups of slot i of the request
MandatoryOf(i) ==
    IF i <= Len(b.req.mandatory_groups) THEN b.req.mandatory_groups[i] ELSE {}

\* the build is over and has answered
Returned == b.pc = "idle" /\ builds > 0

\* C1: the builder checks the keys of a candidate, installs its couple and
\* writes its metakey only while it holds the lock group/<gid> of every
\* involved group; a candidate with a contended lock is not proceeded with.
C1_BuildsOnlyLocked ==
    b.pc \in Building =>
        \A g \in b.involved : persistent_locks[g] = "builder"

C4_NoSharedDc ==
    forbidden_dc_sharing =>
        \A key \in storage.replicas_groupsets :
            \A g1, g2 \in SeqSet(key) :
                g1 # g2 => GroupDc(g1) # GroupDc(g2)

\* the groups of a couple have the same total space
SameTotalSpace(key) ==
    \A g1, g2 \in SeqSet(key) : GroupTotalSpace(g1) = GroupTotalSpace(g2)

\* C5: with match_group_space all the groups of a couple the request built,
\* and of the couple the builder works on, have the same total space.
C5_SameTotalSpace ==
    b.req.match_group_space =>
        /\ \A i \in DOMAIN b.res :
              b.res[i].couple # NoGs => SameTotalSpace(b.res[i].couple)
        /\ b.couple # NoGs => SameTotalSpace(b.couple)

\* a request matching the total space built a couple with a mandatory group
\* while a group of another total space was free
C5_Witness ==
    /\ Returned
    /\ b.req.match_group_space
    /\ \E i \in DOMAIN b.res :
          /\ b.res[i].couple # NoGs
          /\ MandatoryOf(i) # {}
          /\ \E g \in DataGroups :
                /\ storage.groups_couple[g] = NoGs
                /\ GroupTotalSpace(g) # GroupTotalSpace(b.res[i].couple[1])

\* C6: after a dry run the state model is as before the call (groupsets,
\* namespaces, the groups' groupset pointers) and the builder has written
\* no key.
C6_DryRunLeavesNothing ==
    (Returned /\ b.req.dry_run) =>
        /\ storage.replicas_groupsets = b.snap_storage.replicas_groupsets
        /\ storage.lrc_groupsets = b.snap_storage.lrc_groupsets
        /\ storage.namespaces = b.snap_storage.namespaces
        /\ storage.groups_couple = b.snap_storage.groups_couple
        /\ \A g \in AllGroups :
              metakey[g] # b.snap_metakey[g] =>
                  metakey[g] \in {NoMeta, ForeignMeta(g)}

\* C7: build_couples, break_couple, namespace_delete and
\* attach_groupset_to_couple are inside their mutating sections only while
\* they hold the cluster lock, so never two of them at a time.
C7_MutationsUnderClusterLock ==
    /\ b.pc \notin {"idle", "cluster_lock"} => cluster_lock = "build_couples"
    /\ brk.pc = "kill" => cluster_lock = "break_couple"
    /\ nsd.pc = "body" => cluster_lock = "namespace_delete"
    /\ att.pc = "write" => cluster_lock = "attach_groupset_to_couple"

\* C8: a couple or a companion groupset of a build that is no dry run is in
\* the repositories only with its metakey written to every one of its
\* groups.
C8_InstalledAfterWritten ==
    ~b.req.dry_run =>
        \A key \in storage.replicas_groupsets \cup storage.lrc_groupsets :
            \A g \in SeqSet(key) : metakey[g].couple # <<>>

\* a read of the key of an involved group did not end with -2
BadReads(bb) == \E g \in bb.involved : bb.reads[g] # ENOENT

\* the builder writes only after the read of the key of every involved group
\* ended with -2; a candidate with any other answer is given up with nothing
\* installed and nothing written
WritesOnlyAfterEmptyReads ==
    /\ [](b.pc \in Building \ {"check"} =>
              \A g \in b.involved : b.reads[g] = ENOENT)
    /\ [][(b.pc = "check" /\ b'.pc # "check" /\ BadReads(b')) =>
              /\ storage' = storage
              /\ metakey' = metakey
              /\ b'.pc = "release"
              /\ b'.next = "continue"
              /\ b'.couple = NoGs]_vars

\* the locks taken for a candidate given up are released and selection goes on
GivenUpReleased ==
    /\ b'.pc = "choose"
    /\ b.held => \A g \in b.involved : persistent_locks'[g] # "builder"

C10_ConsistentWrite ==
    /\ b.pc = "rollback" => b.failed # {} /\ b.suc \cap b.failed = {}
    /\ (b.pc = "release" /\ b.failed # {}) =>
          /\ b.next = "raise"
          /\ b.exc = "RuntimeError"
          /\ b.removed = b.suc
    /\ b.pc = "update_status" =>
          /\ b.removed = {}
          /\ \A g \in SeqSet(b.couple) : metakey[g].couple = b.couple

\* a write failed on a group and the removal left the key on another
C10_Witness ==
    /\ b.pc = "release"
    /\ b.failed # {}
    /\ \E g \in b.suc : metakey[g].couple = b.wgs

\* C11: after a write of a build that is no dry run failed, nothing of the
\* attempt is left: its groupsets are in no repository and in no namespace,
\* every involved group has no groupset, the groups to couple have no meta,
\* and when the removals of the rollback all succeeded no involved group
\* holds a key of the attempt.
C11_FailedWriteNotInstalled ==
    (b.pc = "release" /\ b.failed # {} /\ ~b.req.dry_run) =>
        LET made == {b.couple} \cup SeqSet(b.couple_groupsets) IN
        /\ made \cap (storage.replicas_groupsets \cup storage.lrc_groupsets) = {}
        /\ \A ns \in NsIds :
              made \cap (storage.ns_replicas[ns] \cup storage.ns_lrc[ns]) = {}
        /\ \A g \in b.involved : storage.groups_couple[g] = NoGs
        /\ \A g \in b.cand : storage.groups_meta[g] = NoMeta
        /\ (\A g \in b.suc : metakey[g].couple # b.couple) =>
              \A g \in b.involved : metakey[g].couple # b.couple

\* the builder is at a candidate of slot b.i
AtCandidate == b.pc \in Building \cup {"choose", "acquire"}

\* the last entry of res is an error string
LastIsError(res) == res # <<>> /\ res[Len(res)].error # ""

\* slot by slot: result k is that of slot k, a slot works with its own
\* mandatory groups, and a slot that ends with an exception leaves its error
\* string and is followed by the next slot
SlotBySlot ==
    /\ [](b.pc = "slot" => Len(b.res) = b.i - 1)
    /\ [](AtCandidate => b.mandatory = MandatoryOf(b.i))
    /\ []((Returned /\ b.raised = "") => Len(b.res) = b.req.couples)
    /\ [][(b.pc \in {"slot", "release"} /\ Len(b'.res) = Len(b.res) + 1
              /\ LastIsError(b'.res)) =>
              (b'.pc = "slot" /\ b'.i = b.i + 1)]_vars

NsMembers(ns) == storage.ns_replicas[ns] \cup storage.ns_lrc[ns]

\* C14: no groupset is a member of two namespaces, the members of a
\* namespace are groupsets that are alive, and a groupset names a namespace
\* exactly when it is a member of that namespace.
C14_GroupsetInOneNamespace ==
    /\ \A n1, n2 \in NsIds : n1 # n2 => NsMembers(n1) \cap NsMembers(n2) = {}
    /\ \A ns \in NsIds :
          \A key \in NsMembers(ns) :
              /\ key \in DOMAIN storage.objs
              /\ storage.objs[key].namespace = ns
    /\ \A key \in DOMAIN storage.objs :
          storage.objs[key].namespace # NoNs =>
              /\ storage.objs[key].namespace \in storage.namespaces
              /\ key \in NsMembers(storage.objs[key].namespace)

\* repair_groups moved the couple of the cluster to another namespace
C14_Witness ==
    /\ rep.pc = "idle"
    /\ rep.raised = ""
    /\ rep.groupset = ClusterCouple
    /\ rep.namespace # "img"
    /\ ClusterCouple \in NsMembers(rep.namespace)
    /\ ClusterCouple \notin NsMembers("img")

\* C15: a namespace whose settings say __service.is_deleted has no member
\* groupsets.
C15_DeletedNamespaceEmpty ==
    \A ns \in NsIds : ns_settings[ns] = "deleted" => NsMembers(ns) = {}

\* the metas of the groups of groupset key name the groupset: a replicas
\* couple by the set of meta.couple, an LRC groupset by the list
\* meta.lrc.groups, in the order of its groups
MetasMatch(s, key) ==
    IF s.objs[key].type = GROUPSET_REPLICAS
    THEN \A g \in SeqSet(key) : SeqSet(s.groups_meta[g].couple) = SeqSet(key)
    ELSE \A g \in SeqSet(key) : s.groups_meta[g].lrc.groups = key

C17_LrcGroupsetHasStripeSize ==
    \A key \in storage.lrc_groupsets : Len(key) = LrcStripe


(***************************************************************************)
(* The status and ordering functions of storage.py, evaluated on their     *)
(* own: calc holds the arguments of one evaluation and then its result.    *)
(***************************************************************************)
\* l[a:b] of a Python list
Slice(l, start, stop) ==
    SubSeq(l, start + 1, IF stop < Len(l) THEN stop ELSE Len(l))

\* Lrc.Scheme822v1.order_groups
order_groups(groups_lists) ==
    Slice(groups_lists[1], 0, 2) \o Slice(groups_lists[2], 0, 2) \o
    Slice(groups_lists[1], 2, 4) \o Slice(groups_lists[2], 2, 4) \o
    Slice(groups_lists[3], 0, 4)

\* Groupset.__init__: self.groups = sorted(groups, key=group_id)
GroupsetGroups(groups) == SortedIds(SeqSet(groups))

\* the groups of one dc, as handed to order_groups
DcGroupLists ==
    {<<1, 2, 3, 4>>, <<5, 6, 7, 8>>, <<9, 10, 11, 12>>, <<4, 3, 2, 1>>,
     <<1, 2, 5, 6>>, <<3, 4, 7, 8>>, <<8, 7, 6, 5>>}

OrderInputs ==
    {gl \in DcGroupLists \X DcGroupLists \X DcGroupLists :
        /\ SeqSet(gl[1]) \cap SeqSet(gl[2]) = {}
        /\ SeqSet(gl[1]) \cap SeqSet(gl[3]) = {}
        /\ SeqSet(gl[2]) \cap SeqSet(gl[3]) = {}}

OrderCalcs ==
    {[op |-> "order_groups", done |-> FALSE, groups_lists |-> gl,
      supplied |-> <<>>, groups |-> <<>>] : gl \in OrderInputs}

\* Lrc822v1Groupset(order_groups(groups_lists)): the groups are ordered by
\* the scheme and the constructor stores them
NewLrcGroupset ==
    /\ calc.op = "order_groups"
    /\ ~calc.done
    /\ LET supplied == order_groups(calc.groups_lists)
       IN calc' = [calc EXCEPT !.done = TRUE,
                               !.supplied = supplied,
                               !.groups = GroupsetGroups(supplied)]
    /\ UNCHANGED <<storage, ns_settings, metakey, persistent_locks,
                   cluster_lock, forbidden_dc_sharing, b, builds, brk, nsd,
                   att, calls, rep, adm>>

\* a group as the status functions see it: the statuses of its node
\* backends and the meta read from it (read = FALSE: no meta was read)
BackendStatuses == {{}, {"OK"}, {"BROKEN"}, {"STALLED"}, {"RO"}}

\* couple: the meta names the couple's groups ("match") or other groups;
\* namespace: the couple's namespace, or none
GroupMetas ==
    {[read |-> FALSE, type |-> "data", couple |-> "match",
      namespace |-> "img", frozen |-> FALSE]} \cup
    [read : {TRUE}, type : {"data", "cache"}, couple : {"match", "other"},
     namespace : {"img", ""}, frozen : BOOLEAN]

StatusGroups == [node_backends : BackendStatuses, meta : GroupMetas]

\* Group.update_storage_group_status: the status it sets, "" when it sets
\* none. meta.couple is "empty" for an empty 'couple', "unbuilt" when the
\* group has no groupset, "other" when check_groups fails, "match" when it
\* passes; the comparison with the bare name TYPE_DATA that follows raises
\* NameError, so the check of the siblings is never reached
update_storage_group_status(g) ==
    IF g.meta.couple = "empty" THEN "INIT"
    ELSE IF g.meta.couple = "unbuilt" THEN "BAD"
    ELSE IF g.meta.couple # "match" THEN "BAD"
    ELSE IF g.meta.namespace = "" THEN "BAD"
    ELSE "NameError"

\* Group.update_status. env: FORBIDDEN_DHT_GROUPS, the number of node
\* backends when there are some, and the service mark of the meta ("none",
\* or MIGRATING with the id of the active job, "job", or of no active job,
\* "no_job")
GroupStatus(g, env) ==
    IF g.node_backends = {} THEN "INIT"
    ELSE IF env.FORBIDDEN_DHT_GROUPS /\ env.backends > 1 THEN "BROKEN"
    ELSE IF ~g.meta.read THEN "INIT"
    ELSE IF "BROKEN" \in g.node_backends THEN "BROKEN"
    ELSE LET status == IF g.meta.type \in {"data", TYPE_LRC_8_2_2_V1}
                       THEN update_storage_group_status(g) ELSE ""
         IN IF status # "" THEN status
            ELSE IF "RO" \in g.node_backends
            THEN IF env.service = "none" THEN "RO"
                 ELSE IF env.service = "job" THEN "MIGRATING"
                 ELSE "BAD"
            ELSE IF g.node_backends # {"OK"} THEN "BAD"
            ELSE "COUPLED"

\* Group.update_status, with FORBIDDEN_DHT_GROUPS off and no migrating
\* service mark in the meta
GroupUpdateStatus(g) ==
    GroupStatus(g, [FORBIDDEN_DHT_GROUPS |-> FALSE, backends |-> 1,
                    service |-> "none"])

\* Groupset._get_job_service_status: "" when there is no service job
JobServiceStatus(c) ==
    IF c.active_job = "running" THEN "SERVICE_ACTIVE"
    ELSE IF c.active_job = "stalled" THEN "SERVICE_STALLED"
    ELSE ""

ServiceOr(c, code) ==
    IF JobServiceStatus(c) # "" THEN JobServiceStatus(c) ELSE code

CoupleGroups(c) == 1..Len(c.groups)

\* the condition of the first ARCHIVED of Couple._calculate_status: the
\* replicas groupset is detached
ReplicasDetached(c, st) ==
    \A i \in CoupleGroups(c) :
        st[i] = "INIT" /\ c.groups[i].node_backends = {}

\* _get_meta_unavailable_status, _get_improper_namespace_status,
\* _get_unequal_meta_status, _get_couple_frozen_status
MetaStatus(c) ==
    IF \E i \in CoupleGroups(c) : ~c.groups[i].meta.read
    THEN ServiceOr(c, "BAD")
    ELSE IF \E i \in CoupleGroups(c) : c.groups[i].meta.namespace # "img"
    THEN "BAD"
    ELSE IF \E i \in CoupleGroups(c) : c.groups[i].meta # c.groups[1].meta
    THEN ServiceOr(c, "BAD")
    ELSE IF \E i \in CoupleGroups(c) : c.groups[i].meta.frozen
    THEN "FROZEN"
    ELSE ""

\* _get_unset_namespace_settings_status, _get_dc_sharing_status,
\* _get_broken_groups_status
SettingsStatus(c, st) ==
    IF c.ns_unset THEN "BROKEN"
    ELSE IF forbidden_dc_sharing /\ c.dc = "shared" THEN "BROKEN"
    ELSE IF forbidden_dc_sharing /\ c.dc = "unresolved" THEN "BAD"
    ELSE IF \E i \in CoupleGroups(c) : st[i] = "BROKEN" THEN "BROKEN"
    ELSE ""

\* _get_bad_groups_status
BadGroupsStatus(c, st) ==
    IF \E i \in CoupleGroups(c) : st[i] = "BAD"
    THEN ServiceOr(c, "BAD") ELSE ""

\* _get_ro_groups_status and the like: some group has one of the statuses
GroupsStatus(c, st, codes) ==
    IF \E i \in CoupleGroups(c) : st[i] \in codes
    THEN ServiceOr(c, "BAD") ELSE ""

\* the mutant: a couple with an LRC groupset is ARCHIVED whatever the
\* statuses of its groups
LrcCoupleStatus_Always(c, st) == "ARCHIVED"

\* Couple._calculate_status, the couple has an LRC groupset and no group is
\* BROKEN or BAD
LrcCoupleStatus(c, st) ==
    IF GroupsStatus(c, st, {"RO", "MIGRATING"}) # ""
    THEN GroupsStatus(c, st, {"RO", "MIGRATING"})
    ELSE IF \A i \in CoupleGroups(c) : st[i] = "COUPLED" THEN "ARCHIVED"
    ELSE "BAD"

\* Couple._calculate_status, the couple has no LRC groupset and no group is
\* BROKEN or BAD
ReplicasCoupleStatus(c, st) ==
    IF GroupsStatus(c, st, {"RO", "MIGRATING", "INIT", "STALLED"}) # ""
    THEN GroupsStatus(c, st, {"RO", "MIGRATING", "INIT", "STALLED"})
    ELSE IF \A i \in CoupleGroups(c) : st[i] = "COUPLED"
    THEN IF c.unmatched THEN "BROKEN"
         ELSE IF c.full THEN "FULL"
         ELSE "OK"
    ELSE "BAD"

\* Couple._calculate_status with the settings checks before the meta checks
CalculateStatus_SettingsFirst(c, st) ==
    IF c.lrc822v1_groupset /\ ReplicasDetached(c, st) THEN "ARCHIVED"
    ELSE IF \E i \in CoupleGroups(c) : ~c.groups[i].meta.read
    THEN MetaStatus(c)
    ELSE IF SettingsStatus(c, st) # "" THEN SettingsStatus(c, st)
    ELSE IF MetaStatus(c) # "" THEN MetaStatus(c)
    ELSE IF BadGroupsStatus(c, st) # "" THEN BadGroupsStatus(c, st)
    ELSE IF c.lrc822v1_groupset THEN LrcCoupleStatus(c, st)
    ELSE ReplicasCoupleStatus(c, st)

\* Couple._calculate_status on the group statuses st
CalculateStatus(c, st) ==
    IF c.lrc822v1_groupset /\ ReplicasDetached(c, st) THEN "ARCHIVED"
    ELSE IF MetaStatus(c) # "" THEN MetaStatus(c)
    ELSE IF SettingsStatus(c, st) # "" THEN SettingsStatus(c, st)
    ELSE IF BadGroupsStatus(c, st) # "" THEN BadGroupsStatus(c, st)
    ELSE IF c.lrc822v1_groupset THEN LrcCoupleStatus(c, st)
    ELSE ReplicasCoupleStatus(c, st)

\* what surrounds the two groups of a couple: its LRC groupset, the active job
\* of its groups, the dcs of its node backends ("distinct", "shared", or
\* "unresolved" when the host's dc cannot be resolved), the namespace
\* settings, the total spaces and the fill
CoupleSettings ==
    [lrc822v1_groupset : BOOLEAN,
     active_job : {"none", "running", "stalled"}, dc : {"distinct"},
     ns_unset : {FALSE}, unmatched : {FALSE}, full : {FALSE}] \cup
    [lrc822v1_groupset : BOOLEAN, active_job : {"none"},
     dc : {"shared", "unresolved"},
     ns_unset : {FALSE}, unmatched : {FALSE}, full : {FALSE}] \cup
    [lrc822v1_groupset : {FALSE}, active_job : {"none"}, dc : {"distinct"},
     ns_unset : BOOLEAN, unmatched : BOOLEAN, full : BOOLEAN]

StatusCalcs ==
    {[op |-> "update_status", done |-> FALSE, groups |-> <<g1, g2>>,
      lrc822v1_groupset |-> cs.lrc822v1_groupset,
      active_job |-> cs.active_job, dc |-> cs.dc, ns_unset |-> cs.ns_unset,
      unmatched |-> cs.unmatched, full |-> cs.full,
      statuses |-> <<>>, code |-> "", raised |-> "",
      calls |-> 0, last |-> "", saved |-> <<>>] :
        g1 \in StatusGroups, g2 \in StatusGroups, cs \in CoupleSettings}

\* Groupset.update_status of a replicas couple: every group updates its
\* status, then the couple's is calculated; an exception of a group leaves
\* the couple's status as it was
CoupleUpdateStatus ==
    /\ calc.op = "update_status"
    /\ ~calc.done
    /\ LET st == [i \in CoupleGroups(calc) |->
                    GroupUpdateStatus(calc.groups[i])]
       IN IF \E i \in CoupleGroups(calc) : st[i] = "NameError"
          THEN calc' = [calc EXCEPT !.done = TRUE, !.statuses = st,
                                    !.raised = "NameError"]
          ELSE calc' = [calc EXCEPT !.done = TRUE, !.statuses = st,
                                    !.code = CalculateStatus(calc, st)]
    /\ UNCHANGED <<storage, ns_settings, metakey, persistent_locks,
                   cluster_lock, forbidden_dc_sharing, b, builds, brk, nsd,
                   att, calls, rep, adm>>

\* freeze_couple and unfreeze_couple calls made on one couple
MaxFreezes == 2

\* the couples that are frozen and unfrozen here: no LRC groupset, no job,
\* node backends in distinct dcs, the namespace set up, not full
FreezeSettings(c) ==
    /\ ~c.lrc822v1_groupset /\ c.active_job = "none" /\ c.dc = "distinct"
    /\ ~c.ns_unset /\ ~c.unmatched /\ ~c.full

\* Couple.compose_group_meta as the groups parse it: version 2, the ids of
\* the couple, its namespace, the flag; no 'type' key, so a data group
ComposedStatusMeta(freeze) ==
    [read |-> TRUE, type |-> "data", couple |-> "match", namespace |-> "img",
     frozen |-> freeze]

\* Groupset.frozen
StatusFrozen(c) ==
    \E i \in CoupleGroups(c) : c.groups[i].meta.read /\ c.groups[i].meta.frozen

\* freeze_couple / unfreeze_couple on the couple: the check of the frozen
\* state, __do_set_meta_freeze (the write fails or every group parses the
\* composed meta), then couple.update_status()
CoupleSetFreeze(freeze) ==
    /\ calc.op = "update_status"
    /\ calc.done
    /\ FreezeSettings(calc)
    /\ calc.calls < MaxFreezes
    /\ \E failed \in BOOLEAN :
          LET op == IF freeze THEN "freeze_couple" ELSE "unfreeze_couple"
              c0 == [calc EXCEPT !.calls = @ + 1, !.last = op]
              groups == [i \in CoupleGroups(calc) |->
                            [calc.groups[i] EXCEPT
                                !.meta = ComposedStatusMeta(freeze)]]
              st == [i \in CoupleGroups(calc) |-> GroupUpdateStatus(groups[i])]
              c1 == [c0 EXCEPT !.groups = groups, !.statuses = st,
                               !.saved = IF freeze THEN calc.groups ELSE @]
          IN IF StatusFrozen(calc) = freeze
             THEN /\ ~failed
                  /\ calc' = [c0 EXCEPT !.raised = "ValueError"]
             ELSE IF failed
             THEN calc' = [c0 EXCEPT !.raised = "RuntimeError"]
             ELSE IF \E i \in CoupleGroups(calc) : st[i] = "NameError"
             THEN calc' = [c1 EXCEPT !.raised = "NameError"]
             ELSE calc' = [c1 EXCEPT !.raised = "",
                                     !.code = CalculateStatus(c1, st)]
    /\ UNCHANGED program

CoupleFreeze == CoupleSetFreeze(TRUE)

CoupleUnfreeze == CoupleSetFreeze(FALSE)

\* a step that is a call of op which wrote the metakey
WroteFreeze(op) ==
    /\ calc.op = "update_status" /\ calc.done
    /\ calc'.op = "update_status"
    /\ calc'.calls = calc.calls + 1
    /\ calc'.last = op
    /\ calc'.raised \notin {"ValueError", "RuntimeError"}

\* C26: from status OK a freeze_couple whose write succeeds returns and
\* leaves the couple FROZEN; the unfreeze_couple that follows returns it to
\* OK with the metas of before the freeze; freeze_couple on a frozen couple
\* and unfreeze_couple on one that is not frozen fail and change nothing.
C26_FreezeRoundTrip ==
    /\ [][(WroteFreeze("freeze_couple") /\ calc.raised = ""
              /\ calc.code = "OK") =>
            calc'.raised = "" /\ calc'.code = "FROZEN"]_vars
    /\ [][(WroteFreeze("unfreeze_couple") /\ calc.raised = ""
              /\ calc.last = "freeze_couple" /\ calc.code = "FROZEN") =>
            /\ calc'.raised = "" /\ calc'.code = "OK"
            /\ calc'.groups = calc.saved]_vars
    /\ [][(/\ calc.op = "update_status" /\ calc.done
           /\ calc'.op = "update_status" /\ calc'.calls = calc.calls + 1
           /\ StatusFrozen(calc) = (calc'.last = "freeze_couple")) =>
            /\ calc'.raised = "ValueError"
            /\ calc'.groups = calc.groups /\ calc'.code = calc.code]_vars

InitStatus ==
    /\ storage = EmptyStorage
    /\ ns_settings = [ns \in NsIds |-> "set"]
    /\ metakey = [g \in AllGroups |-> NoMeta]
    /\ persistent_locks = [g \in AllGroups |-> "free"]
    /\ cluster_lock = "free"
    /\ forbidden_dc_sharing = TRUE
    /\ b = BuilderIdle
    /\ builds = 0
    /\ brk = BreakIdle
    /\ nsd = HandlerIdle
    /\ att = HandlerIdle
    /\ calls = 0
    /\ rep = RepairIdle
    /\ adm = NoCall
    /\ calc \in OrderCalcs \cup StatusCalcs

NextStatus ==
    \/ NewLrcGroupset
    \/ CoupleUpdateStatus
    \/ CoupleFreeze
    \/ CoupleUnfreeze

SpecStatus == InitStatus /\ [][NextStatus]_vars

\* C18: an LRC groupset keeps its groups in the scheme order in which they
\* were supplied, so that groups[i] holds stripe part i.
C18_GroupsInSchemeOrder ==
    (calc.op = "order_groups" /\ calc.done) => calc.groups = calc.supplied

\* the couple's status was calculated and is ARCHIVED
Archived ==
    calc.op = "update_status" /\ calc.done /\ calc.raised = ""
        /\ calc.code = "ARCHIVED"

\* C19 as stated: a couple left ARCHIVED by update_status has a linked LRC
\* groupset and every replicas group is INIT with no node backends.
C19_ArchivedIsDetached ==
    Archived => calc.lrc822v1_groupset /\ ReplicasDetached(calc, calc.statuses)

\* C19: a couple left ARCHIVED by update_status has a linked LRC groupset,
\* and either every replicas group is INIT with no node backends or every
\* replicas group is COUPLED.
C19_ArchivedIsDetachedOrCoupled ==
    Archived =>
        /\ calc.lrc822v1_groupset
        /\ \/ ReplicasDetached(calc, calc.statuses)
           \/ \A i \in CoupleGroups(calc) : calc.statuses[i] = "COUPLED"

C19_Witness ==
    /\ Archived
    /\ \A i \in CoupleGroups(calc) : calc.statuses[i] = "COUPLED"

\* the group is BAD by the cascade of Group.update_status: it has node
\* backends, none of them BROKEN, and its meta names other groups than the
\* couple's, or a node backend is neither OK nor RO
IsBadGroup(g) ==
    /\ g.node_backends # {}
    /\ "BROKEN" \notin g.node_backends
    /\ \/ g.meta.type = "data" /\ g.meta.couple # "match"
       \/ "RO" \notin g.node_backends /\ g.node_backends # {"OK"}

\* one group has a BROKEN node backend and another is BAD; every meta is
\* read, equal, of the couple's namespace and not frozen
BrokenAndBad(c) ==
    /\ \A i \in CoupleGroups(c) :
          /\ c.groups[i].meta.read
          /\ c.groups[i].meta = c.groups[1].meta
          /\ c.groups[i].meta.namespace = "img"
          /\ ~c.groups[i].meta.frozen
    /\ \E i, j \in CoupleGroups(c) :
          /\ "BROKEN" \in c.groups[i].node_backends
          /\ IsBadGroup(c.groups[j])

\* C20: for a couple with a BROKEN group and a BAD one, the metas present,
\* equal, of the couple's namespace and not frozen, update_status yields
\* BROKEN, with an active service job too.
C20_BrokenOverBad ==
    (calc.op = "update_status" /\ calc.done /\ BrokenAndBad(calc)) =>
        calc.raised = "" /\ calc.code = "BROKEN"


(***************************************************************************)
(* More functions of storage.py evaluated on their own: the statuses of    *)
(* node backends and filesystems, the tables of the LRC scheme, the LRC    *)
(* groupset's status, parse_meta, the repositories.                        *)
(***************************************************************************)
\* a node backend: whether statistics were gathered for it, the total space
\* in them, its flags, and the status stored on it
NodeBackends ==
    [stat : BOOLEAN, total_space : {1}, disabled : BOOLEAN,
     stalled : BOOLEAN, read_only : BOOLEAN, status : {"INIT"},
     derived : {FALSE}]

\* a filesystem with the total space of its statistics and its two node
\* backends, as the constructors leave them (Fs: OK, NodeBackend: INIT)
DeriveCalcs ==
    [op : {"derive"}, fs_total_space : {1, 2}, fs_status : {"OK"},
     fs_derived : {FALSE}, nb : NodeBackends \X NodeBackends]

\* NodeBackend.update_status on a filesystem of status fs_status
NodeBackendStatus(nb, fs_status) ==
    IF ~nb.stat THEN "INIT"
    ELSE IF nb.disabled THEN "STALLED"
    ELSE IF nb.stalled THEN "STALLED"
    ELSE IF fs_status = "BROKEN" THEN "BROKEN"
    ELSE IF nb.read_only THEN "RO"
    ELSE "OK"

\* Fs.update_status: the total space of the node backends whose stored
\* status is OK or BROKEN against the filesystem's
FsStatus(fs_total_space, nbs) ==
    LET counted == {i \in 1..Len(nbs) : nbs[i].status \in {"OK", "BROKEN"}}
        total_space == SetSum(counted, [i \in counted |-> nbs[i].total_space])
    IN IF total_space > fs_total_space THEN "BROKEN" ELSE "OK"

\* nb.update_status()
NodeBackendUpdateStatus(i) ==
    /\ calc.op = "derive"
    /\ calc' = [calc EXCEPT
                  !.nb[i].status = NodeBackendStatus(calc.nb[i], calc.fs_status),
                  !.nb[i].derived = TRUE]
    /\ UNCHANGED program

\* fs.update_status(): when the status changes, the node backends of the
\* filesystem update theirs
FsUpdateStatus ==
    /\ calc.op = "derive"
    /\ LET status == FsStatus(calc.fs_total_space, calc.nb)
       IN calc' = [calc EXCEPT
                     !.fs_status = status,
                     !.fs_derived = TRUE,
                     !.nb = IF status = calc.fs_status THEN calc.nb
                            ELSE [i \in 1..Len(calc.nb) |->
                                    [calc.nb[i] EXCEPT
                                       !.status =
                                          NodeBackendStatus(calc.nb[i], status),
                                       !.derived = TRUE]]]
    /\ UNCHANGED program

\* C21: the status of a node backend and of a filesystem is a function of
\* the statistics and flags only: once derived, deriving it again from the
\* same inputs gives the same code, whatever was derived in between.
C21_DerivedTwiceTheSame ==
    [][(calc.op = "derive" /\ calc'.op = "derive") =>
          /\ calc.fs_derived => calc'.fs_status = calc.fs_status
          /\ \A i \in 1..Len(calc.nb) :
                calc.nb[i].derived => calc'.nb[i].status = calc.nb[i].status]_vars


\* the parts of a stripe of the scheme 8-2-2: indices 0..11
StripeParts == 0..11

Combinations(S, r) == {T \in SUBSET S : Cardinality(T) = r}

\* generate_lrc822v1_bad_parts_indices: its local names
local_groups == <<{0, 1, 2, 3}, {4, 5, 6, 7}>>

\* the mutant: the local parities of the two local groups exchanged
local_parity_Exchanged == <<{9}, {8}>>

local_parity == <<{8}, {9}>>

global_parity == {10, 11}

\* generate_lrc822v1_bad_parts_indices: the sorted tuples of the patterns
generate_lrc822v1_bad_parts_indices ==
    LET k2 == {1, 2}
        indices ==
            {local_groups[k] : k \in k2} \cup
            UNION {{d \cup local_parity[k] :
                        d \in Combinations(local_groups[k], 3)} : k \in k2} \cup
            UNION {{d \cup gp : d \in Combinations(local_groups[k], 3),
                                gp \in Combinations(global_parity, 1)} :
                        k \in k2} \cup
            UNION {{d \cup global_parity :
                        d \in Combinations(local_groups[k], 2)} : k \in k2} \cup
            UNION {{d \cup local_parity[k] \cup gp :
                        d \in Combinations(local_groups[k], 2),
                        gp \in Combinations(global_parity, 1)} : k \in k2} \cup
            UNION {{d \cup local_parity[k] \cup global_parity :
                        d \in Combinations(local_groups[k], 1)} : k \in k2}
    IN {SortedIds(part_ids) : part_ids \in indices}

BAD_DATA_PARTS_INDICES == generate_lrc822v1_bad_parts_indices

\* Scheme822v1.is_data_partially_unavailable on the indices of U
is_data_partially_unavailable(U) ==
    IF Cardinality(U) > 4 THEN TRUE
    ELSE IF Cardinality(U) < 4 THEN FALSE
    ELSE SortedIds(U) \in BAD_DATA_PARTS_INDICES

INDEX_SHARD_INDICES == <<{0, 2, 8}, {1, 3, 9}, {4, 6, 10}, {5, 7, 11}>>

\* the mutant: a shard counts as unavailable when one of its groups is
ShardUnavailable_Any(U, indices) == U \cap indices # {}

\* unavailable_data_parts_indices.issuperset(indices)
ShardUnavailable(U, indices) == indices \subseteq U

\* Scheme822v1.get_unavailable_index_shard_indices: the sorted indices of
\* the first unavailable shard, <<>> for None
RECURSIVE FirstUnavailableShard(_, _)
FirstUnavailableShard(U, shards) ==
    IF shards = <<>> THEN <<>>
    ELSE IF ShardUnavailable(U, Head(shards)) THEN SortedIds(Head(shards))
    ELSE FirstUnavailableShard(U, Tail(shards))

get_unavailable_index_shard_indices(U) ==
    FirstUnavailableShard(U, INDEX_SHARD_INDICES)

\* a list of indices of unavailable groups, and the answers of the scheme
TableCalcs ==
    [op : {"unavailable"}, U : SUBSET StripeParts, asked : {{}},
     data_unavailable : {FALSE}, shard : {<<>>}]

IsDataPartiallyUnavailable ==
    /\ calc.op = "unavailable"
    /\ "data" \notin calc.asked
    /\ calc' = [calc EXCEPT
                  !.asked = @ \cup {"data"},
                  !.data_unavailable = is_data_partially_unavailable(calc.U)]
    /\ UNCHANGED program

GetUnavailableIndexShardIndices ==
    /\ calc.op = "unavailable"
    /\ "shard" \notin calc.asked
    /\ calc' = [calc EXCEPT
                  !.asked = @ \cup {"shard"},
                  !.shard = get_unavailable_index_shard_indices(calc.U)]
    /\ UNCHANGED program

\* the unrecoverable losses of four parts: patterns (a) to (f)
UnrecoverablePattern(U) ==
    /\ Cardinality(U) = 4
    /\ \E k \in {1, 2} :
          LET data == IF k = 1 THEN {0, 1, 2, 3} ELSE {4, 5, 6, 7}
              lp == IF k = 1 THEN 8 ELSE 9
              lost == Cardinality(U \cap data)
              globals == Cardinality(U \cap {10, 11})
          IN \/ lost = 4
             \/ lost = 3 /\ lp \in U
             \/ lost = 3 /\ globals = 1
             \/ lost = 2 /\ globals = 2
             \/ lost = 2 /\ lp \in U /\ globals = 1
             \/ lost = 1 /\ lp \in U /\ globals = 2

\* C22: is_data_partially_unavailable(U) is true iff U has more than four
\* indices, or four that form one of the unrecoverable patterns (a)-(f);
\* true for {0,1,2,3}, {0,1,2,8}, {0,1,10,11}, false for {0,1,4,5}.
C22_DataUnavailableTable ==
    (calc.op = "unavailable" /\ "data" \in calc.asked) =>
        /\ calc.data_unavailable <=>
              (Cardinality(calc.U) > 4 \/ UnrecoverablePattern(calc.U))
        /\ calc.U \in {{0, 1, 2, 3}, {0, 1, 2, 8}, {0, 1, 10, 11}} =>
              calc.data_unavailable
        /\ calc.U = {0, 1, 4, 5} => ~calc.data_unavailable

C22_Witness ==
    /\ calc.op = "unavailable" /\ "data" \in calc.asked
    /\ calc.U = {0, 1, 2, 8}
    /\ calc.data_unavailable

\* C23: get_unavailable_index_shard_indices(U) returns the first of the
\* shards {0,2,8}, {1,3,9}, {4,6,10}, {5,7,11} contained in U, and null
\* when U contains none (as for {0,1,2}).
C23_FirstContainedShard ==
    (calc.op = "unavailable" /\ "shard" \in calc.asked) =>
        LET shards == <<{0, 2, 8}, {1, 3, 9}, {4, 6, 10}, {5, 7, 11}>>
            contained == {i \in 1..4 : shards[i] \subseteq calc.U}
        IN /\ contained = {} => calc.shard = <<>>
           /\ \A i \in contained :
                 (\A j \in contained : i <= j) =>
                    calc.shard = SortedIds(shards[i])
           /\ calc.U = {0, 1, 2} => calc.shard = <<>>

C23_Witness ==
    /\ calc.op = "unavailable" /\ "shard" \in calc.asked
    /\ calc.U = {1, 3, 4, 6, 9, 10}
    /\ calc.shard = <<1, 3, 9>>

\* an LRC groupset of twelve groups, as its update_status sees it: the
\* groups at the indices of U are of one kind (no node backends, a BROKEN
\* or a STALLED node backend, or no meta read), the others have OK node
\* backends; names: the ids the 'couple' key of the metas lists, those of
\* the replicas couple (as compose_group_meta writes) or the groupset's own;
\* lrc: the metas that have the 'lrc' section (all, all but that of the
\* first group, none); part_sizes and schemes: those of the 'lrc' sections
LrcCalcs ==
    [op : {"lrc_update_status", "lrc_calculate_status"}, done : {FALSE},
     U : {{}, {0, 1, 2}, {0, 1, 2, 3}, {0, 2, 8}, StripeParts},
     kind : {"no_backends", "no_meta", "broken", "stalled"},
     names : {"couple", "groupset"},
     active_job : {"none", "running"},
     lrc : {"all", "some", "none"},
     part_sizes : {"equal", "differ", "unset"},
     schemes : {"equal", "differ"},
     frozen : BOOLEAN,
     ns_unset : BOOLEAN,
     statuses : {<<>>}, code : {""}, raised : {""}]

\* some group of the groupset has no meta
LrcMetaMissing(c) == c.U # {} /\ c.kind = "no_meta"

\* Lrc822v1Groupset.check_groups(meta['couple']): every group of the
\* groupset has a meta with 'lrc.groups', and the ids are those of the
\* 'lrc.groups' of the metas and the groupset's group ids
LrcCheckGroups(c) ==
    /\ ~LrcMetaMissing(c)
    /\ c.lrc = "all"
    /\ c.names = "groupset"

\* the group at index idx of the groupset
LrcGroup(c, idx) ==
    [node_backends |->
        IF idx \notin c.U \/ c.kind = "no_meta" THEN {"OK"}
        ELSE IF c.kind = "no_backends" THEN {}
        ELSE IF c.kind = "broken" THEN {"BROKEN"}
        ELSE {"STALLED"},
     meta |-> [read |-> ~(idx \in c.U /\ c.kind = "no_meta"),
               type |-> TYPE_LRC_8_2_2_V1,
               couple |-> IF LrcCheckGroups(c) THEN "match" ELSE "other",
               namespace |-> "img", frozen |-> c.frozen]]

\* Lrc822v1Groupset._unavailable_data_parts_indices
UnavailableDataPartsIndices(st) == {idx \in DOMAIN st : st[idx] # "COUPLED"}

\* Lrc822v1Groupset._calculate_status on the group statuses st; "KeyError"
\* when meta['lrc'] of a group raises it
LrcCalculateStatus(c, st) ==
    LET indices == UnavailableDataPartsIndices(st) IN
    IF is_data_partially_unavailable(indices) THEN "BAD_DATA_UNAVAILABLE"
    ELSE IF get_unavailable_index_shard_indices(indices) # <<>>
    THEN "BAD_INDICES_UNAVAILABLE"
    ELSE IF LrcMetaMissing(c) THEN ServiceOr(c, "BAD")
    ELSE IF c.lrc # "all" THEN "KeyError"
    ELSE IF c.part_sizes # "equal" THEN "BROKEN"
    ELSE IF c.schemes # "equal" THEN "BROKEN"
    ELSE IF c.ns_unset THEN "BROKEN"
    ELSE IF \E idx \in DOMAIN st : st[idx] = "BROKEN" THEN "BROKEN"
    ELSE IF \E idx \in DOMAIN st : st[idx] # "COUPLED" THEN "BAD"
    ELSE "ARCHIVED"

\* the first part of Lrc822v1Groupset.update_status: the part size is taken
\* from the metas that have an 'lrc' section; without any part size in them
\* ValueError is raised
LrcPartSizeUnset(c) ==
    /\ c.part_sizes = "unset"
    /\ c.lrc # "none"
    /\ ~(c.kind = "no_meta" /\ (c.U = StripeParts
                                \/ (c.lrc = "some" /\ c.U = StripeParts \ {0})))

\* Lrc822v1Groupset.update_status: the part size from the metas, then
\* Groupset.update_status
LrcUpdateStatus ==
    /\ calc.op = "lrc_update_status"
    /\ ~calc.done
    /\ LET st == [idx \in StripeParts |->
                    GroupUpdateStatus(LrcGroup(calc, idx))]
           code == LrcCalculateStatus(calc, st)
       IN IF LrcPartSizeUnset(calc)
          THEN calc' = [calc EXCEPT !.done = TRUE, !.raised = "ValueError"]
          ELSE IF \E idx \in StripeParts : st[idx] = "NameError"
          THEN calc' = [calc EXCEPT !.done = TRUE, !.statuses = st,
                                    !.raised = "NameError"]
          ELSE IF code = "KeyError"
          THEN calc' = [calc EXCEPT !.done = TRUE, !.statuses = st,
                                    !.raised = "KeyError"]
          ELSE calc' = [calc EXCEPT !.done = TRUE, !.statuses = st,
                                    !.code = code]
    /\ UNCHANGED program

\* groupset._calculate_status() on group statuses derived with TYPE_DATA
\* read as Group.TYPE_DATA: a group with OK node backends and its meta is
\* COUPLED
LrcCalculate ==
    /\ calc.op = "lrc_calculate_status"
    /\ ~calc.done
    /\ ~LrcPartSizeUnset(calc)
    /\ LET st == [idx \in StripeParts |->
                    IF idx \notin calc.U THEN "COUPLED"
                    ELSE IF calc.kind \in {"no_backends", "no_meta"}
                    THEN "INIT"
                    ELSE IF calc.kind = "broken" THEN "BROKEN"
                    ELSE "BAD"]
           code == LrcCalculateStatus(calc, st)
       IN IF code = "KeyError"
          THEN calc' = [calc EXCEPT !.done = TRUE, !.statuses = st,
                                    !.raised = "KeyError"]
          ELSE calc' = [calc EXCEPT !.done = TRUE, !.statuses = st,
                                    !.code = code]
    /\ UNCHANGED program

\* C31: the derivation of the status of an LRC groupset never raises, also
\* when no meta has a part_size or a meta has no 'lrc' section; past the
\* data and index checks a missing meta gives BAD (or the service status),
\* then a frozen meta gives FROZEN and a part_size or a scheme that differs
\* from the groupset's gives BROKEN.
C31_LrcMetaChecks ==
    (calc.op \in {"lrc_update_status", "lrc_calculate_status"}
        /\ calc.done) =>
        /\ calc.raised = ""
        /\ calc.code \notin {"BAD_DATA_UNAVAILABLE",
                             "BAD_INDICES_UNAVAILABLE"} =>
              /\ LrcMetaMissing(calc) =>
                    calc.code \in {"BAD", "SERVICE_ACTIVE", "SERVICE_STALLED"}
              /\ (/\ ~LrcMetaMissing(calc) /\ calc.frozen
                  /\ calc.part_sizes = "equal" /\ calc.schemes = "equal")
                    => calc.code = "FROZEN"
              /\ (/\ ~LrcMetaMissing(calc) /\ ~calc.frozen
                  /\ (calc.part_sizes = "differ" \/ calc.schemes = "differ"))
                    => calc.code = "BROKEN"

\* the three ways C31 fails, one at a time: ValueError for metas without
\* part_size, KeyError for a meta without 'lrc', no FROZEN
LrcPartSizeNeverRaises ==
    (calc.op = "lrc_update_status" /\ calc.done) => calc.raised # "ValueError"

LrcSectionNeverRaises ==
    (calc.op = "lrc_calculate_status" /\ calc.done) => calc.raised # "KeyError"

LrcFrozenIsFrozen ==
    (/\ calc.op = "lrc_calculate_status" /\ calc.done /\ calc.raised = ""
     /\ calc.U = {} /\ calc.frozen /\ calc.lrc = "all"
     /\ calc.part_sizes = "equal" /\ calc.schemes = "equal") =>
        calc.code = "FROZEN"

\* C24: for an LRC groupset with consistent metas and namespace settings,
\* groups 0,1,2,3 not COUPLED (a STALLED node backend each) give
\* BAD_DATA_UNAVAILABLE, and only groups 0,1,2 not COUPLED give BAD.
C24_LrcCascade ==
    (/\ calc.op = "lrc_update_status" /\ calc.done
     /\ calc.kind = "stalled" /\ calc.part_sizes = "equal"
     /\ calc.schemes = "equal" /\ ~calc.ns_unset) =>
        /\ calc.U = {0, 1, 2, 3} => calc.code = "BAD_DATA_UNAVAILABLE"
        /\ calc.U = {0, 1, 2} => calc.code = "BAD"

\* C33: an LRC groupset whose groups all have OK node backends and the meta
\* its compose_group_meta writes (couple: the ids of the replicas couple,
\* lrc.groups: the ids of the groupset), in a namespace with settings,
\* derives every group COUPLED and the groupset ARCHIVED.
C33_ComposedLrcIsArchived ==
    (/\ calc.op = "lrc_update_status" /\ calc.done
     /\ calc.U = {} /\ calc.names = "couple" /\ calc.lrc = "all"
     /\ calc.part_sizes = "equal" /\ calc.schemes = "equal"
     /\ ~calc.ns_unset) =>
        /\ calc.raised = ""
        /\ \A idx \in StripeParts : calc.statuses[idx] = "COUPLED"
        /\ calc.code = "ARCHIVED"

\* meta documents: what the balancer composes for the groups of a couple,
\* for uncoupled LRC groups, a foreign one, and documents of another or of
\* no version (version 0 stands for a map without the key)
MetaDocuments ==
    {[NoMeta EXCEPT !.version = v, !.couple = <<1, 2>>, !.namespace = ns,
                    !.frozen = f] :
        v \in {0, 1, 2}, ns \in {"img", "default"}, f \in BOOLEAN} \cup
    {UncoupledLrcMeta(<<3, 4>>), ForeignMeta(1),
     [NoMeta EXCEPT !.version = 2, !.couple = <<1, 2>>, !.namespace = "img",
                    !.type = TYPE_LRC_8_2_2_V1,
                    !.lrc = [groups |-> <<3, 4>>, part_size |-> 1,
                             scheme |-> Scheme822v1_ID]]}

\* what can be read from the metakey of a group: a packed document, the
\* legacy array of group ids, or a packed value that is neither
RawMetas ==
    {packb(m) : m \in MetaDocuments} \cup
    {[kind |-> "array", doc |-> [NoMeta EXCEPT !.couple = ids]] :
        ids \in {<<>>, <<1>>, <<1, 2>>}} \cup
    {[kind |-> "int", doc |-> NoMeta]}

ParseCalcs ==
    [op : {"parse_meta"}, done : {FALSE}, raw : RawMetas,
     old : {NoMeta, ForeignMeta(2)}, meta : {NoMeta}, raised : {""}]

\* group.parse_meta(raw) on a group whose meta is old: the meta is assigned
\* only when the value is parsed
GroupParseMeta ==
    /\ calc.op = "parse_meta"
    /\ ~calc.done
    /\ LET parsed == parse_meta(calc.raw)
       IN calc' = [calc EXCEPT
                     !.done = TRUE,
                     !.meta = IF parsed.ok THEN parsed.meta ELSE calc.old,
                     !.raised = IF parsed.ok THEN ""
                                ELSE IF calc.raw.kind = "map"
                                        /\ calc.raw.doc.version = 0
                                THEN "KeyError"
                                ELSE "Exception"]
    /\ UNCHANGED program

MaxRepoOps == 3

\* the identities of the elements
RepoKeys == {1, 2}

\* an empty repositary: per identity the object that is the key of the
\* dictionary and the object that is its value (0: no entry), the objects
\* whose state was changed after their construction, the objects
\* constructed, the last operation with its argument and outcome
RepoCalcs ==
    {[op |-> "repositary",
      keys |-> [k \in RepoKeys |-> 0],
      elements |-> [k \in RepoKeys |-> 0],
      changed |-> {}, constructed |-> 0, ops |-> 0,
      last |-> "", arg |-> 0, result |-> 0, raised |-> ""]}

\* repo.add(k): e = self.constructor(k); self.elements[e] = e; return e.
\* An assignment to a key a dictionary has keeps the key object and replaces
\* the value.
RepositaryAdd(k) ==
    /\ calc.op = "repositary"
    /\ calc.ops < MaxRepoOps
    /\ LET e == calc.constructed + 1
       IN calc' = [calc EXCEPT
                     !.constructed = e,
                     !.keys[k] = IF calc.keys[k] = 0 THEN e ELSE calc.keys[k],
                     !.elements[k] = e,
                     !.ops = calc.ops + 1,
                     !.last = "add", !.arg = k, !.result = e, !.raised = ""]
    /\ UNCHANGED program

\* the state of the element repo[k] is changed by its owner
\* (add_node_backend, parse_meta, update_status, ...)
RepositaryElementChanged(k) ==
    /\ calc.op = "repositary"
    /\ calc.ops < MaxRepoOps
    /\ calc.elements[k] # 0
    /\ calc.elements[k] \notin calc.changed
    /\ calc' = [calc EXCEPT
                  !.changed = calc.changed \cup {calc.elements[k]},
                  !.ops = calc.ops + 1,
                  !.last = "change", !.arg = k,
                  !.result = calc.elements[k], !.raised = ""]
    /\ UNCHANGED program

\* repo[k]
RepositaryGetItem(k) ==
    /\ calc.op = "repositary"
    /\ calc.ops < MaxRepoOps
    /\ calc' = [calc EXCEPT
                  !.ops = calc.ops + 1,
                  !.last = "getitem", !.arg = k,
                  !.result = calc.elements[k],
                  !.raised = IF calc.elements[k] = 0 THEN "ResourceError"
                             ELSE ""]
    /\ UNCHANGED program

\* repo.remove(k): self.elements.pop(k)
RepositaryRemove(k) ==
    /\ calc.op = "repositary"
    /\ calc.ops < MaxRepoOps
    /\ calc' = [calc EXCEPT
                  !.keys[k] = 0,
                  !.elements[k] = 0,
                  !.ops = calc.ops + 1,
                  !.last = "remove", !.arg = k,
                  !.result = calc.elements[k],
                  !.raised = IF calc.elements[k] = 0 THEN "KeyError" ELSE ""]
    /\ UNCHANGED program

\* C29: add of an identity the repositary has returns the element it has,
\* with its state, and leaves one element for the identity; repo[k] of an
\* absent key raises ResourceError; remove of an absent key raises and
\* changes nothing.
C29_InsertOrGet ==
    [][(calc.op = "repositary" /\ calc'.op = "repositary") =>
          /\ (calc'.last = "add" /\ calc.elements[calc'.arg] # 0) =>
                /\ calc'.result = calc.elements[calc'.arg]
                /\ calc'.elements = calc.elements
                /\ calc'.keys = calc.keys
                /\ (calc'.result \in calc'.changed)
                      = (calc.elements[calc'.arg] \in calc.changed)
          /\ (calc'.last = "getitem" /\ calc.elements[calc'.arg] = 0) =>
                calc'.raised = "ResourceError"
          /\ (calc'.last = "remove" /\ calc.elements[calc'.arg] = 0) =>
                /\ calc'.raised # ""
                /\ calc'.elements = calc.elements
                /\ calc'.keys = calc.keys]_vars

\* the parts of C29 that hold: one entry per identity after add, the errors
\* of lookup and remove
RepositaryErrors ==
    [][(calc.op = "repositary" /\ calc'.op = "repositary") =>
          /\ calc'.last = "add" => calc'.elements[calc'.arg] = calc'.result
          /\ (calc'.last = "getitem" /\ calc.elements[calc'.arg] = 0) =>
                calc'.raised = "ResourceError"
          /\ (calc'.last = "remove" /\ calc.elements[calc'.arg] = 0) =>
                /\ calc'.raised = "KeyError"
                /\ calc'.elements = calc.elements
                /\ calc'.keys = calc.keys]_vars

\* ---- Couple._calculate_status on given group statuses ----
\* a group of a couple as Group.update_status leaves it: without node
\* backends it is INIT, with node backends and no meta it is INIT, with
\* both it has one of the other statuses
CascadeGroups ==
    LET metas == {m \in GroupMetas : m.couple = "match"}
    IN  [status : {"INIT"}, node_backends : {{}}, meta : metas]
        \cup [status : {"INIT"}, node_backends : {{"OK"}},
              meta : {m \in metas : ~m.read}]
        \cup [status : {"BROKEN", "BAD", "RO", "MIGRATING", "COUPLED"},
              node_backends : {{"OK"}}, meta : {m \in metas : m.read}]

CascadeCalcs ==
    {[op |-> "_calculate_status", done |-> FALSE, groups |-> <<g1, g2>>,
      lrc822v1_groupset |-> cs.lrc822v1_groupset,
      active_job |-> cs.active_job, dc |-> cs.dc, ns_unset |-> cs.ns_unset,
      unmatched |-> cs.unmatched, full |-> cs.full, code |-> ""] :
        g1 \in CascadeGroups, g2 \in CascadeGroups, cs \in CoupleSettings}

\* the statuses of the groups of the couple
GroupStatuses(c) == [i \in CoupleGroups(c) |-> c.groups[i].status]

\* couple._calculate_status()
CoupleCalculateStatus ==
    /\ calc.op = "_calculate_status"
    /\ ~calc.done
    /\ calc' = [calc EXCEPT
                  !.done = TRUE,
                  !.code = CalculateStatus(calc, GroupStatuses(calc))]
    /\ UNCHANGED program

\* the cascade of the specification on a couple c; "" when no predicate of
\* it matches. unequal is the status for groups with unequal metas,
\* unresolved the one for a dc that cannot be resolved ("": no such
\* predicate), rest the one for an LRC couple past its last predicate.
Cascade(c, unequal, unresolved, rest) ==
    LET G == CoupleGroups(c)
        some(codes) == \E i \in G : c.groups[i].status \in codes
        service(code) ==
            IF c.active_job = "running" THEN "SERVICE_ACTIVE"
            ELSE IF c.active_job = "stalled" THEN "SERVICE_STALLED"
            ELSE code
    IN  IF /\ c.lrc822v1_groupset
           /\ \A i \in G : /\ c.groups[i].status = "INIT"
                           /\ c.groups[i].node_backends = {}
        THEN "ARCHIVED"
        ELSE IF \E i \in G : ~c.groups[i].meta.read THEN service("BAD")
        ELSE IF \E i \in G : c.groups[i].meta.namespace # "img" THEN "BAD"
        ELSE IF \E i, j \in G : c.groups[i].meta # c.groups[j].meta
        THEN unequal
        ELSE IF \E i \in G : c.groups[i].meta.frozen THEN "FROZEN"
        ELSE IF c.ns_unset THEN "BROKEN"
        ELSE IF c.dc = "shared" THEN "BROKEN"
        ELSE IF c.dc = "unresolved" /\ unresolved # "" THEN unresolved
        ELSE IF some({"BROKEN"}) THEN "BROKEN"
        ELSE IF some({"BAD"}) THEN service("BAD")
        ELSE IF c.lrc822v1_groupset
        THEN IF some({"RO"}) THEN service("BAD")
             ELSE IF some({"MIGRATING"}) THEN service("BAD")
             ELSE IF \A i \in G : c.groups[i].status = "COUPLED"
             THEN "ARCHIVED"
             ELSE rest
        ELSE IF some({"RO"}) THEN service("BAD")
        ELSE IF some({"MIGRATING"}) THEN service("BAD")
        ELSE IF some({"INIT"}) THEN service("BAD")
        ELSE IF some({"STALLED"}) THEN service("BAD")
        ELSE IF c.unmatched THEN "BROKEN"
        ELSE IF c.full THEN "FULL"
        ELSE "OK"

\* a calculated OK or FULL is of a couple without LRC groupset whose groups
\* are all COUPLED
GoodIsCoupled ==
    (calc.op = "_calculate_status" /\ calc.done
        /\ calc.code \in {"OK", "FULL"}) =>
        /\ ~calc.lrc822v1_groupset
        /\ \A i \in CoupleGroups(calc) : calc.groups[i].status = "COUPLED"

GroupCalcs ==
    [op : {"group_update_status"}, done : {FALSE},
     node_backends : BackendStatuses \cup {{"OK", "RO"}, {"OK", "STALLED"}},
     backends : {1, 2},
     meta : {m \in GroupMetas : ~m.read} \cup
            [read : {TRUE}, type : {"data", "cache", TYPE_LRC_8_2_2_V1},
             couple : {"match", "other", "empty", "unbuilt"},
             namespace : {"img", ""}, frozen : {FALSE}],
     FORBIDDEN_DHT_GROUPS : BOOLEAN,
     service : {"none", "job", "no_job"},
     status : {""}, raised : {""}]

\* group.update_status()
GroupUpdate ==
    /\ calc.op = "group_update_status"
    /\ ~calc.done
    /\ Cardinality(calc.node_backends) <= calc.backends
    /\ LET status == GroupStatus(calc, calc)
       IN IF status = "NameError"
          THEN calc' = [calc EXCEPT !.done = TRUE, !.raised = "NameError"]
          ELSE calc' = [calc EXCEPT !.done = TRUE, !.status = status]
    /\ UNCHANGED program

\* the cascade of the specification for a group
GroupCascade(g) ==
    IF g.node_backends = {} THEN "INIT"
    ELSE IF g.FORBIDDEN_DHT_GROUPS /\ g.backends > 1 THEN "BROKEN"
    ELSE IF ~g.meta.read THEN "INIT"
    ELSE IF "BROKEN" \in g.node_backends THEN "BROKEN"
    ELSE IF g.meta.type # "cache" /\ g.meta.couple = "empty" THEN "INIT"
    ELSE IF g.meta.type # "cache" /\ g.meta.couple \in {"unbuilt", "other"}
    THEN "BAD"
    ELSE IF g.meta.type # "cache" /\ g.meta.namespace = "" THEN "BAD"
    ELSE IF "RO" \in g.node_backends
    THEN IF g.service = "job" THEN "MIGRATING" ELSE "RO"
    ELSE IF g.node_backends # {"OK"} THEN "BAD"
    ELSE "COUPLED"

\* C32: Group.update_status gives the first match of the cascade: no
\* backends INIT; several backends with DHT forbidden BROKEN; no meta INIT;
\* a BROKEN backend BROKEN; for data and LRC groups an empty couple INIT, a
\* groupset not built or failing check_groups BAD, no namespace BAD; an RO
\* backend RO, or MIGRATING when the meta is marked MIGRATING by the active
\* job; a backend that is not OK BAD; else COUPLED.
C32_GroupCascade ==
    (calc.op = "group_update_status" /\ calc.done) =>
        /\ calc.raised = ""
        /\ calc.status = GroupCascade(calc)

\* the two ways C32 fails, one at a time
GroupUpdateNeverRaises ==
    (calc.op = "group_update_status" /\ calc.done) => calc.raised = ""

GroupCascadeWhenReturned ==
    (calc.op = "group_update_status" /\ calc.done /\ calc.raised = "") =>
        calc.status = GroupCascade(calc)

\* the cascade but for the MIGRATING mark without its job, which gives BAD
GroupCascadeButStaleMark ==
    (/\ calc.op = "group_update_status" /\ calc.done /\ calc.raised = ""
     /\ calc.service # "no_job") =>
        calc.status = GroupCascade(calc)

InitFunctions ==
    /\ storage = EmptyStorage
    /\ ns_settings = [ns \in NsIds |-> "set"]
    /\ metakey = [g \in AllGroups |-> NoMeta]
    /\ persistent_locks = [g \in AllGroups |-> "free"]
    /\ cluster_lock = "free"
    /\ forbidden_dc_sharing = TRUE
    /\ b = BuilderIdle
    /\ builds = 0
    /\ brk = BreakIdle
    /\ nsd = HandlerIdle
    /\ att = HandlerIdle
    /\ calls = 0
    /\ rep = RepairIdle
    /\ adm = NoCall
    /\ calc \in DeriveCalcs \cup TableCalcs \cup LrcCalcs \cup ParseCalcs
                 \cup RepoCalcs \cup CascadeCalcs
                 \cup GroupCalcs

NextFunctions ==
    \/ \E i \in {1, 2} : NodeBackendUpdateStatus(i)
    \/ FsUpdateStatus
    \/ IsDataPartiallyUnavailable
    \/ GetUnavailableIndexShardIndices
    \/ LrcUpdateStatus
    \/ LrcCalculate
    \/ GroupParseMeta
    \/ \E k \in RepoKeys : RepositaryAdd(k)
    \/ \E k \in RepoKeys : RepositaryElementChanged(k)
    \/ \E k \in RepoKeys : RepositaryGetItem(k)
    \/ \E k \in RepoKeys : RepositaryRemove(k)
    \/ CoupleCalculateStatus
    \/ GroupUpdate

SpecFunctions == InitFunctions /\ [][NextFunctions]_vars


\* C27: after every freeze_couple / unfreeze_couple call on a couple,
\* returned or raised, the frozen flag of the metakey stored on each group
\* of the couple is the couple's frozen state in the model.
C27_FrozenFlagMatches ==
    (/\ adm.op \in {"freeze_couple", "unfreeze_couple"}
     /\ adm.pc = "idle"
     /\ adm.couple \in storage.replicas_groupsets) =>
        \A g \in SeqSet(adm.couple) :
            metakey[g].frozen = GroupsetFrozen(storage, adm.couple)


\* the confirmation of the claim's wording: the word for the status, then
\* the sorted ids joined by ':'
LiteralConfirm(status, ids) ==
    <<"Yes, I want to break ",
      IF status \in {"OK", "FULL", "FROZEN"} THEN "good" ELSE "bad",
      " couple ">> \o couple_str(ids)

\* a break_couple call has just run its confirmation check and further
BreakChecked == brk.pc = "kill" /\ brk'.pc = "idle"

\* a break_couple call that raised on its confirmation changed nothing
RefusedChangesNothing ==
    (BreakChecked /\ brk'.raised = "Exception") =>
        (storage' = storage /\ metakey' = metakey)

\* C28 as stated: break_couple gets past the confirmation check only with
\* the literal confirmation of the couple's status, 'Yes, I want to break
\* good couple <ids>' for OK, FULL and FROZEN and '... bad couple <ids>'
\* otherwise; with any other confirmation it raises and removes no metakey
\* and changes neither the couple, the metas nor the namespace.
C28_OnlyLiteralConfirmation ==
    [][/\ (BreakChecked /\ brk'.raised # "Exception")
              <=> (BreakChecked
                     /\ brk'.confirm = LiteralConfirm(brk'.status, brk.couple))
       /\ RefusedChangesNothing]_vars

\* C28 amended: break_couple gets past the confirmation check exactly with
\* the literal confirmation of the couple's status or with the same
\* confirmation with the ids in square brackets ('... couple [<ids>]');
\* with any other confirmation it raises Exception and removes no metakey
\* and changes neither the couple, the metas nor the namespace.
C28_LiteralOrBracketed ==
    [][/\ (BreakChecked /\ brk'.raised # "Exception")
              <=> (BreakChecked
                     /\ \/ brk'.confirm
                              = LiteralConfirm(brk'.status, brk.couple)
                        \/ brk'.confirm
                              = SubSeq(LiteralConfirm(brk'.status, brk.couple),
                                       1, 3)
                                  \o <<"[">> \o couple_str(brk.couple)
                                  \o <<"]">>)
       /\ RefusedChangesNothing]_vars

\* a couple was broken with the bracketed confirmation
C28_WitnessBracketed ==
    /\ brk.pc = "idle"
    /\ brk.raised = ""
    /\ brk.couple # NoGs
    /\ brk.confirm # LiteralConfirm(brk.status, brk.couple)
    /\ brk.couple \notin storage.replicas_groupsets


\* a break_couple call has just returned
BreakReturned == BreakChecked /\ brk'.raised = ""

AttachFailed ==
    /\ att' # att
    /\ att'.pc = "idle" /\ att'.raised # "" /\ att'.groupset # NoGs

\* the groupset is in no repository and no namespace and no group points to
\* it
GroupsetGone(s, key) ==
    /\ key \notin s.lrc_groupsets \cup s.replicas_groupsets
    /\ key \notin DOMAIN s.objs
    /\ \A ns \in NsIds : key \notin s.ns_lrc[ns] \cup s.ns_replicas[ns]
    /\ \A g \in AllGroups : s.groups_couple[g] # key

\* C35: when attach_groupset_to_couple fails after it constructed the new
\* groupset, the groupset is destroyed (in no repository, in no namespace,
\* its groups without groupset) and the couple's link to an LRC groupset is
\* as before.
C35_FailedAttachDestroys ==
    [][AttachFailed =>
          /\ GroupsetGone(storage', att'.groupset)
          /\ att'.couple \in DOMAIN storage.objs \cap DOMAIN storage'.objs =>
                storage'.objs[att'.couple].lrc822v1_groupset
                    = storage.objs[att'.couple].lrc822v1_groupset]_vars

\* the part of C35 that holds: a failed write of the metakey destroys the
\* groupset
FailedAttachWriteDestroys ==
    [][(AttachFailed /\ att.pc = "write") =>
          GroupsetGone(storage', att'.groupset)]_vars


(***************************************************************************)
(* The handlers without the builder: break_couple, repair_groups,          *)
(* freeze_couple, unfreeze_couple and attach_groupset_to_couple called     *)
(* one after or during another on a cluster with one couple.               *)
(***************************************************************************)
\* calls of the handlers in one behaviour
MaxHandlerCalls == 2

InitHandlers ==
    /\ storage = ClusterStorage
    /\ ns_settings = [ns \in NsIds |-> "set"]
    /\ metakey = [g \in AllGroups |->
                    IF g \in LrcGroups THEN UncoupledLrcMeta(LrcTuple)
                    ELSE ClusterStorage.groups_meta[g]]
    /\ persistent_locks = [g \in AllGroups |-> "free"]
    /\ cluster_lock = "free"
    /\ forbidden_dc_sharing = TRUE
    /\ b = BuilderIdle
    /\ builds = 0
    /\ brk = BreakIdle
    /\ nsd = HandlerIdle
    /\ att = HandlerIdle
    /\ calls = MaxCalls - MaxHandlerCalls
    /\ rep = RepairIdle
    /\ adm = NoCall
    /\ calc = NoCalc

NextHandlers ==
    \/ BreakCouple
    \/ AttachGroupset
    \/ RepairGroupsHandler
    \/ FreezeCouple
    \/ UnfreezeCouple

SpecHandlers == InitHandlers /\ [][NextHandlers]_vars

\* break_couple has returned and a freeze_couple, unfreeze_couple or
\* repair_groups call on the same couple, made before break_couple returned,
\* is over
BrokenDuringCall ==
    /\ brk.pc = "idle" /\ brk.raised = "" /\ brk.couple # NoGs
    /\ adm.pc = "idle" /\ rep.pc = "idle"
    /\ \/ adm.op \in {"freeze_couple", "unfreeze_couple"}
             /\ adm.couple = brk.couple
       \/ rep.groupset = brk.couple

\* C40: when a break_couple and a freeze_couple, unfreeze_couple or
\* repair_groups call on the same couple have both completed, whatever their
\* interleaving, no group of the couple that the model holds as uncoupled
\* (no groupset, no meta) has a metakey stored on it, and no group of the
\* couple, if it is still in the model, lacks its metakey.
C40_ConsistentAfterBreak ==
    BrokenDuringCall =>
        \A g \in SeqSet(brk.couple) :
            /\ (storage.groups_couple[g] = NoGs
                   /\ storage.groups_meta[g] = NoMeta) => metakey[g] = NoMeta
            /\ brk.couple \in storage.replicas_groupsets =>
                   metakey[g] # NoMeta


\* a repair_groups call has just raised exc before its write
RepairRefused(exc) ==
    rep.pc = "idle" /\ rep' # rep /\ rep'.pc = "idle" /\ rep'.raised = exc

\* C36: repair_groups on a group without groupset, or whose groupset is OK,
\* FULL or FROZEN, raises ValueError and changes nothing; when it fails
\* because the namespace to use does not exist, the groupset is in the
\* namespaces it was in before the call.
C36_RefusedRepairChangesNothing ==
    [][/\ RepairRefused("ValueError") => storage' = storage /\ metakey' = metakey
       /\ RepairRefused("ResourceError") =>
             /\ storage'.ns_replicas = storage.ns_replicas
             /\ storage'.ns_lrc = storage.ns_lrc
             /\ \A key \in DOMAIN storage.objs :
                   storage'.objs[key].namespace
                       = storage.objs[key].namespace]_vars

\* the part of C36 that holds
RepairValueErrorChangesNothing ==
    [][RepairRefused("ValueError") =>
          storage' = storage /\ metakey' = metakey]_vars


\* a freeze_couple or unfreeze_couple call on a couple that has an LRC
\* groupset has just returned
FrozenWithSibling ==
    /\ adm.pc = "write" /\ adm'.pc = "idle" /\ adm'.raised = ""
    /\ adm.couple \in DOMAIN storage'.objs
    /\ storage'.objs[adm.couple].lrc822v1_groupset # NoGs

\* C37: after every freeze_couple or unfreeze_couple that returns, on a
\* couple with an LRC groupset, the metas of the groups of the LRC groupset
\* have the frozen value of the metas of the groups of the couple.
C37_SiblingSharesFrozen ==
    [][FrozenWithSibling =>
          \A g \in SeqSet(adm.couple),
             l \in SeqSet(storage'.objs[adm.couple].lrc822v1_groupset) :
                storage'.groups_meta[l].frozen = storage'.groups_meta[g].frozen
      ]_vars


(***************************************************************************)
(* The result of build_couples against the couples it installed            *)
(* (balancer.py 689-765, 673-687).                                         *)
(***************************************************************************)
\* the entries of the result that are the info of a couple
CoupleInfos(res) == {i \in DOMAIN res : res[i].couple # NoGs}

\* the couples the finished call put into storage.replicas_groupsets
InstalledByCall ==
    storage.replicas_groupsets \ b.snap_storage.replicas_groupsets

\* build_couples has returned its result list and it was not a dry run
BuiltForReal == Returned /\ b.raised = "" /\ ~b.req.dry_run

\* the result has one entry per requested couple
ResultPerSlot == (Returned /\ b.raised = "") => Len(b.res) = b.req.couples

\* C38: build_couples returns exactly N entries, each the info of a built
\* couple or an error string, and outside a dry run the number of couple
\* infos is the number of couples the call installed, also when the release
\* of the group locks fails after a couple was built.
C38_InfosAreInstalled ==
    /\ ResultPerSlot
    /\ BuiltForReal =>
          Cardinality(CoupleInfos(b.res)) = Cardinality(InstalledByCall)


(***************************************************************************)
(* The link between a couple and its LRC groupset (balancer.py 636-637,    *)
(* 977, 1010; storage.py 1624-1634, 2080-2092, 2287, 2496).                *)
(***************************************************************************)
\* Group.update_status_recursive: what it recomputes, or the exception of
\* self.couple.couple.update_status() when the groupset has no couple
update_status_recursive(s, g) ==
    LET groupset == s.groups_couple[g] IN
    IF groupset = NoGs THEN "group"
    ELSE IF s.objs[groupset].couple = groupset THEN "groupset"
    ELSE IF s.objs[groupset].couple = NoGs THEN "AttributeError"
    ELSE "groupset and couple"

\* the couples and the LRC groupsets of the state model
LiveCouples(s) ==
    {k \in DOMAIN s.objs : s.objs[k].type = GROUPSET_REPLICAS}

LiveLrcGroupsets(s) ==
    {k \in DOMAIN s.objs : s.objs[k].type = GROUPSET_LRC}

\* no handler is between two of its steps
NoHandlerRunning ==
    /\ brk.pc = "idle" /\ att.pc = "idle" /\ rep.pc = "idle"
    /\ adm.pc = "idle"

\* C39: couple.lrc822v1_groupset = L exactly when L.couple = couple, after
\* an attach and after a break or destroy of either side; so
\* update_status_recursive of a group of a linked LRC groupset recomputes the
\* groupset and its couple without an error.
C39_LinkIsBidirectional ==
    /\ \A c \in LiveCouples(storage), l \in LiveLrcGroupsets(storage) :
          storage.objs[c].lrc822v1_groupset = l
              <=> storage.objs[l].couple = c
    /\ \A c \in LiveCouples(storage) :
          LET l == storage.objs[c].lrc822v1_groupset IN
          l \in LiveLrcGroupsets(storage) =>
              \A g \in SeqSet(l) :
                  storage.groups_couple[g] = l =>
                      update_status_recursive(storage, g)
                          = "groupset and couple"

\* the same between the calls only: no handler is at a suspension point
C39_LinkBetweenCalls == NoHandlerRunning => C39_LinkIsBidirectional

=============================================================================
